---- MODULE Spec2Model ----
(***************************************************************************)
(* A model of the impulse-response Store (hrir.py, class HRIR) and of the  *)
(* stages that mutate it in place: head cropping, ipsilateral alignment,   *)
(* tail cropping, resampling, virtual-bass synthesis (core/virtual_bass.py)*)
(* and the cross-validated microphone-deviation corrector                  *)
(* (microphone_deviation_correction.py).                                   *)
(*                                                                         *)
(* Conventions.                                                            *)
(*  - A buffer is a sequence of integers.  Indices named "index", "peak",  *)
(*    "start" are Python's 0-based indices; At(s, i) reads s at one.       *)
(*  - Samples are fixed-point integers.  Window weights are per-mille.     *)
(*  - Levels and deviations are integers in units of 1/DB decibel.         *)
(*  - numpy/scipy kernels (Butterworth sections, homomorphic minimum       *)
(*    phase, FFT) are replaced by integer kernels of the same shape: the   *)
(*    same output length, the same index conventions, the same branches.   *)
(***************************************************************************)
EXTENDS Integers, Sequences, FiniteSets, TLC

VARIABLES
  irs,     \* HRIR.irs: speaker code -> [left |-> buffer, right |-> buffer]
  order,   \* insertion order of HRIR.irs (Python dicts iterate in it)
  fs,      \* HRIR.fs
  prev,    \* the Store (irs) as it was when the last operation was called
  last,    \* what the last operation was called with and what it computed
  logs,    \* logger calls and warnings.warn calls, in order
  mic,     \* the corrector call in progress (apply_microphone_deviation_...)
  corrector, \* the CrossValidatedMicrophoneCorrector object of that call
  cropped, \* the common length crop_tails left, 0 once a shaping stage has run since
  steps    \* number of operations called so far

vars == <<irs, order, fs, prev, last, logs, mic, corrector, cropped, steps>>

-----------------------------------------------------------------------------
(* Bounds of the model *)

\* number of operations called on one Store
MaxSteps == 3
\* length of every buffer the estimator hands to the Store
IrLen == 6

-----------------------------------------------------------------------------
(* Integer helpers *)

Abs(x) == IF x < 0 THEN -x ELSE x
Min(a, b) == IF a < b THEN a ELSE b
Max(a, b) == IF a > b THEN a ELSE b
Sign(x) == IF x > 0 THEN 1 ELSE IF x < 0 THEN -1 ELSE 0

\* Python's int(): truncation toward zero of num/den, den > 0
TruncDiv(num, den) == Sign(num) * (Abs(num) \div den)

\* numpy.round of num/den (den > 0): to nearest, halves to the even neighbour
RoundHalfEven(num, den) ==
  LET q == Abs(num) \div den
      r == Abs(num) % den
      up == IF 2 * r > den THEN 1
            ELSE IF 2 * r < den THEN 0
            ELSE IF q % 2 = 1 THEN 1 ELSE 0
  IN Sign(num) * (q + up)

\* x scaled by a per-mille weight, rounded toward zero
MulMilli(x, w) == TruncDiv(x * w, 1000)

\* a numpy array holds its values: the sequence with every element computed once
Array(f) == f \o <<>>

Zeros(n) == Array([i \in 1..n |-> 0])

\* data[i] for a 0-based index inside the buffer
At(s, i) == s[i + 1]

\* Python's data[start:]: a negative start counts from the end
SliceFrom(s, start) ==
  LET n == Len(s)
      b == IF start < 0 THEN Max(n + start, 0) ELSE Min(start, n)
  IN Array([i \in 1..(n - b) |-> s[b + i]])

\* Python's data[a:b] for 0 <= a
SliceRange(s, a, b) ==
  LET n == Len(s)
      lo == Min(a, n)
      hi == Max(lo, Min(b, n))
  IN Array([i \in 1..(hi - lo) |-> s[lo + i]])

\* numpy.argmax(numpy.abs(s)): the first index of the largest magnitude
ArgMaxAbs(s) ==
  CHOOSE i \in 0..(Len(s) - 1) :
    /\ \A j \in 0..(Len(s) - 1) : Abs(At(s, j)) <= Abs(At(s, i))
    /\ \A j \in 0..(i - 1) : Abs(At(s, j)) < Abs(At(s, i))

\* numpy.argmax(s): the first index of the largest value
ArgMax(s) ==
  CHOOSE i \in 0..(Len(s) - 1) :
    /\ \A j \in 0..(Len(s) - 1) : At(s, j) <= At(s, i)
    /\ \A j \in 0..(i - 1) : At(s, j) < At(s, i)

\* ImpulseResponse.peak_index(): index of the maximum absolute sample
peak_index(s) == ArgMaxAbs(s)

\* floor of the square root, by bisection between lo (lo^2 <= n) and hi (hi^2 > n)
RECURSIVE SqrtBetween(_, _, _)
SqrtBetween(n, lo, hi) ==
  IF hi - lo <= 1 THEN lo
  ELSE IF ((lo + hi) \div 2) * ((lo + hi) \div 2) <= n
       THEN SqrtBetween(n, (lo + hi) \div 2, hi)
       ELSE SqrtBetween(n, lo, (lo + hi) \div 2)
Isqrt(n) == SqrtBetween(n, 0, Min(n, 46339) + 1)

\* floor of the base-2 logarithm, n >= 1
RECURSIVE FloorLog2(_)
FloorLog2(n) == IF n < 2 THEN 0 ELSE 1 + FloorLog2(n \div 2)

\* sin(2 pi num / den), per-mille, by Bhaskara's rational approximation
\* sin(pi u) = 16 u (1 - u) / (5 - 4 u (1 - u)) on 0 <= u <= 1
SinMilli(num, den) ==
  LET r == num % den
      h == IF 2 * r <= den THEN 2 * r ELSE 2 * r - den
      u == (1000 * h) \div den
      p == u * (1000 - u)
      v == (16 * p) \div (5000 - (4 * p) \div 1000)
  IN IF 2 * r <= den THEN v ELSE -v

\* cos(2 pi num / den), per-mille
CosMilli(num, den) == SinMilli(4 * num + den, 4 * den)

\* |X[k]| of the n_fft-point DFT of s (zero-padded or cut to n_fft), as numpy.fft gives it
RECURSIVE DftSum(_, _, _, _, _)
DftSum(s, k, n_fft, l, cosine) ==
  IF l >= Min(Len(s), n_fft) THEN 0
  ELSE At(s, l) * (IF cosine THEN CosMilli(k * l, n_fft) ELSE SinMilli(k * l, n_fft))
       + DftSum(s, k, n_fft, l + 1, cosine)

DftMag(s, k, n_fft) ==
  LET re == TruncDiv(DftSum(s, k, n_fft, 0, TRUE), 1000)
      im == TruncDiv(DftSum(s, k, n_fft, 0, FALSE), 1000)
  IN Isqrt(re * re + im * im)

\* numpy.argmin(|freqs - f|) over the bins k * rate / n_fft, k = 0 .. max_bin:
\* the first of the bins nearest to f
NearestBin(f, rate, n_fft, max_bin) ==
  LET below == (f * n_fft) \div rate
      k == IF f * n_fft - below * rate > (below + 1) * rate - f * n_fft
           THEN below + 1 ELSE below
  IN Min(k, max_bin)

\* scipy.signal.windows.hann(M)[k] = sin^2(pi k / (M - 1)), per-mille
hann(M, k) ==
  IF M <= 1 THEN 1000
  ELSE (SinMilli(k, 2 * (M - 1)) * SinMilli(k, 2 * (M - 1))) \div 1000

-----------------------------------------------------------------------------
(* The Store and the estimator *)

\* the estimator's sampling rate, which a new HRIR copies (self.fs = estimator.fs)
EstimatorFs == 1000

Speakers == {"FL", "FR", "FC", "SL", "SR", "TFL", "TFR", "WL", "WR", "LFE"}

\* speaker[1], the second character of the code
SecondChar(speaker) ==
  CASE speaker \in {"FL", "SL", "WL"} -> "L"
    [] speaker \in {"FR", "SR", "WR"} -> "R"
    [] speaker = "FC" -> "C"
    [] OTHER -> "F"

\* the last character of the code (str.endswith)
LastChar(speaker) ==
  CASE speaker \in {"FL", "SL", "TFL", "WL"} -> "L"
    [] speaker \in {"FR", "SR", "TFR", "WR"} -> "R"
    [] speaker = "LFE" -> "E"
    [] OTHER -> "C"

\* constants.SPEAKER_DELAYS, in microseconds
SPEAKER_DELAYS(speaker) ==
  CASE speaker \in {"SL", "SR"} -> 1000
    [] OTHER -> 0

\* one measured response: a peak of amplitude amp at index peak, a decaying tail
Impulse(peak, amp) ==
  Array([i \in 1..IrLen |->
           IF i = peak + 1 THEN amp
           ELSE IF i = peak + 2 THEN amp \div 2
           ELSE IF i = peak + 3 THEN -(amp \div 4)
           ELSE 0])

\* the measurements of a session: <<left peak, right peak, left amp, right amp>>
Measurements ==
  << <<1, 1, 64, 64>>, <<1, 3, 64, 32>>, <<3, 1, 32, 64>>, <<3, 2, 64, -32>> >>

\* the speaker layouts of a Store, in insertion order
Layouts ==
  { <<"FL">>, <<"FL", "FR">>, <<"FL", "SL">>, <<"FC", "FR">>, <<"SR", "TFR">> }

Range(s) == {s[i] : i \in 1..Len(s)}

PairOf(m) == [left |-> Impulse(m[1], m[3]), right |-> Impulse(m[2], m[4])]

\* the position of a speaker in the insertion order
IndexOf(seq, s) == CHOOSE i \in 1..Len(seq) : seq[i] = s

\* a session measures the speakers one after the other, from its k-th measurement on
Session(layout, k) ==
  [s \in Range(layout) |->
     PairOf(Measurements[((k + IndexOf(layout, s) - 2) % Len(Measurements)) + 1])]

NoMic == [pc |-> "idle"]
NoLast == [op |-> "none"]
NoCorrector == [made |-> FALSE]

\* HRIR.__init__ and HRIR.open_recording: the Store as the estimator fills it
Init ==
  /\ order \in Layouts
  /\ \E k \in 1..Len(Measurements) : irs = Session(order, k)
  /\ fs = EstimatorFs
  /\ prev = irs
  /\ last = NoLast
  /\ logs = <<>>
  /\ mic = NoMic
  /\ corrector = NoCorrector
  /\ cropped = 0
  /\ steps = 0

-----------------------------------------------------------------------------
(* HRIR.crop_heads *)

\* the head-room arguments callers pass, in tenths of a millisecond
HeadMsTenths == {10, 15, 20}

\* head = int(head_ms * self.fs / 1000)
HeadSamples(head_tenths, rate) == TruncDiv(head_tenths * rate, 10000)

\* delay = int(np.round(SPEAKER_DELAYS[speaker] * self.fs)) + head
ChannelDelay(speaker, head, rate) ==
  RoundHalfEven(SPEAKER_DELAYS(speaker) * rate, 1000000) + head

\* the index both ears are cropped from
CropStart(peak_left, peak_right, delay) ==
  IF peak_left < peak_right THEN peak_right - delay ELSE peak_left - delay

\* the advisory warning of the ITD sanity check, or none
SideWarning(speaker, peak_left, peak_right) ==
  IF peak_left < peak_right
  THEN IF SecondChar(speaker) = "R" THEN <<[warn |-> "left_first", speaker |-> speaker]>> ELSE <<>>
  ELSE IF SecondChar(speaker) = "L" THEN <<[warn |-> "right_first", speaker |-> speaker]>> ELSE <<>>

\* data[:head] *= hann(head * 2)[:head]
FadeIn(data, head) ==
  Array([i \in 1..Len(data) |->
           IF i <= head THEN MulMilli(data[i], hann(2 * head, i - 1)) ELSE data[i]])

\* numpy refuses data[:head] *= window when the slice is shorter than the window
FadeInFits(data, head) == Len(data) >= head

\* one iteration of the loop over self.irs.items()
CropHeadsOne(st, speaker, head, rate) ==
  LET pair == st.irs[speaker]
      peak_left == peak_index(pair.left)
      peak_right == peak_index(pair.right)
      delay == ChannelDelay(speaker, head, rate)
      start == CropStart(peak_left, peak_right, delay)
      left == SliceFrom(pair.left, start)
      right == SliceFrom(pair.right, start)
      rec == [peak_left |-> peak_left, peak_right |-> peak_right,
              delay |-> delay, start |-> start, head |-> head]
      warned == st.logs \o SideWarning(speaker, peak_left, peak_right)
  IN IF ~FadeInFits(left, head)
     THEN [irs |-> [st.irs EXCEPT ![speaker] = [left |-> left, right |-> right]],
           logs |-> warned, done |-> st.done @@ (speaker :> rec), raised |-> TRUE]
     ELSE IF ~FadeInFits(right, head)
     THEN [irs |-> [st.irs EXCEPT ![speaker] = [left |-> FadeIn(left, head), right |-> right]],
           logs |-> warned, done |-> st.done @@ (speaker :> rec), raised |-> TRUE]
     ELSE [irs |-> [st.irs EXCEPT ![speaker] =
                      [left |-> FadeIn(left, head), right |-> FadeIn(right, head)]],
           logs |-> warned, done |-> st.done @@ (speaker :> rec), raised |-> FALSE]

RECURSIVE CropHeadsLoop(_, _, _, _)
CropHeadsLoop(st, k, head, rate) ==
  IF k > Len(order) \/ st.raised THEN st
  ELSE CropHeadsLoop(CropHeadsOne(st, order[k], head, rate), k + 1, head, rate)

\* a guard that lets every rate through
RateUnchecked == FALSE

\* the guard of crop_heads and crop_tails: self.fs != self.estimator.fs raises
RateMismatch == fs # EstimatorFs

Idle == mic.pc = "idle" /\ steps < MaxSteps

crop_heads(head_tenths) ==
  /\ Idle
  /\ LET head == HeadSamples(head_tenths, fs)
         st0 == [irs |-> irs, logs |-> logs, done |-> <<>>, raised |-> FALSE]
         st == IF RateMismatch THEN [st0 EXCEPT !.raised = TRUE]
               ELSE CropHeadsLoop(st0, 1, head, fs)
     IN /\ irs' = st.irs
        /\ logs' = st.logs
        /\ last' = [op |-> "crop_heads", head_tenths |-> head_tenths, head |-> head,
                    mismatch |-> RateMismatch, raised |-> st.raised, done |-> st.done,
                    warned |-> SubSeq(st.logs, Len(logs) + 1, Len(st.logs))]
  /\ cropped' = IF RateMismatch THEN cropped ELSE 0
  /\ prev' = irs
  /\ steps' = steps + 1
  /\ UNCHANGED <<order, fs, mic, corrector>>

-----------------------------------------------------------------------------
(* HRIR.align_ipsilateral_all *)

\* the speaker_pairs arguments callers pass
SpeakerPairLists ==
  { << <<"FL", "SL">>, <<"SR", "TFR">>, <<"FC", "FR">> >>,
    << <<"FL", "FR">>, <<"SL", "SR">>, <<"FC", "FC">> >> }

\* the segment_ms arguments callers pass
SegmentMs == {2, 30}

\* segment_len = int(self.fs / 1000 * segment_ms)
SegmentLen(rate, segment_ms) == TruncDiv(rate * segment_ms, 1000)

\* scipy.signal.correlate(a, b, mode='full')[k] = sum_l a[l] * b[l - k + len(b) - 1]
correlate(a, b) ==
  LET na == Len(a)
      nb == Len(b)
      term(k, l) == IF l - k + nb - 1 >= 0 /\ l - k + nb - 1 < nb
                    THEN At(a, l) * At(b, l - k + nb - 1) ELSE 0
      RECURSIVE sum(_, _)
      sum(k, l) == IF l >= na THEN 0 ELSE term(k, l) + sum(k, l + 1)
  IN Array([i \in 1..(na + nb - 1) |-> sum(i - 1, 0)])

\* delay = np.argmax(corr) - (len(segment_b) - 1)
CorrDelay(segment_a, segment_b) ==
  ArgMax(correlate(segment_a, segment_b)) - (Len(segment_b) - 1)

\* the ear compared for a pair: that of the first speaker's side, none for a centre code
PairEar(pair_speakers) ==
  IF LastChar(pair_speakers[1]) = "L" THEN "left"
  ELSE IF LastChar(pair_speakers[1]) = "R" THEN "right"
  ELSE "skip"

Ear(pair, ear) == IF ear = "left" THEN pair.left ELSE pair.right
WithEar(pair, ear, data) ==
  IF ear = "left" THEN [pair EXCEPT !.left = data] ELSE [pair EXCEPT !.right = data]

\* one iteration of the loop over speaker_pairs
AlignOne(st, pair_speakers, segment_len) ==
  LET ear == PairEar(pair_speakers)
      sa == pair_speakers[1]
      sb == pair_speakers[2]
  IN IF sa \notin DOMAIN st.irs \/ sb \notin DOMAIN st.irs \/ ear = "skip" THEN st
     ELSE
       LET ir_a == Ear(st.irs[sa], ear)
           ir_b == Ear(st.irs[sb], ear)
           peak_a == peak_index(ir_a)
           peak_b == peak_index(ir_b)
           segment_a == SliceRange(ir_a, peak_a, peak_a + segment_len)
           segment_b == SliceRange(ir_b, peak_b, peak_b + segment_len)
           delay == CorrDelay(segment_a, segment_b)
           rec == [a |-> sa, b |-> sb, ear |-> ear, peak_a |-> peak_a,
                   peak_b |-> peak_b, delay |-> delay, ir_a |-> ir_a, ir_b |-> ir_b]
       IN IF delay > 0
          THEN [irs |-> [st.irs EXCEPT ![sb] = WithEar(@, ear, Zeros(delay) \o ir_b)],
                done |-> Append(st.done, rec)]
          ELSE [irs |-> [st.irs EXCEPT ![sa] = WithEar(@, ear, Zeros(Abs(delay)) \o ir_a)],
                done |-> Append(st.done, rec)]

RECURSIVE AlignLoop(_, _, _, _)
AlignLoop(st, pairs, k, segment_len) ==
  IF k > Len(pairs) THEN st
  ELSE AlignLoop(AlignOne(st, pairs[k], segment_len), pairs, k + 1, segment_len)

align_ipsilateral_all(speaker_pairs, segment_ms) ==
  /\ Idle
  /\ LET st == AlignLoop([irs |-> irs, done |-> <<>>], speaker_pairs, 1,
                         SegmentLen(fs, segment_ms))
     IN /\ irs' = st.irs
        /\ last' = [op |-> "align", segment_ms |-> segment_ms, raised |-> FALSE,
                    done |-> st.done]
  /\ cropped' = 0
  /\ prev' = irs
  /\ steps' = steps + 1
  /\ UNCHANGED <<order, fs, logs, mic, corrector>>

-----------------------------------------------------------------------------
(* HRIR.crop_tails *)

\* what the estimator exposes of its sweep: nothing, or len(estimator) and n_octaves
Sweeps == { [known |-> FALSE], [known |-> TRUE, len |-> 30, n_octaves |-> 1] }

\* the default fade-out, fade_out_duration_ms = 5
DefaultFade(rate) == TruncDiv(rate * 5, 1000)

\* fade_out_samples, with its fallbacks and its cap at max_len // 2
FadeOutSamples(sweep, rate, max_len) ==
  LET f0 == IF sweep.known /\ sweep.len > 0 /\ sweep.n_octaves > 0
            THEN 2 * TruncDiv(rate * sweep.len, EstimatorFs * sweep.n_octaves * 24)
            ELSE DefaultFade(rate)
      f1 == IF f0 <= 0 THEN DefaultFade(rate) ELSE f0
  IN IF f1 > max_len \div 2
     THEN (IF max_len \div 2 > 0 THEN max_len \div 2 ELSE 1)
     ELSE f1

\* a crop_tails that leaves every buffer at its own length
TailLenOwn(current_len, max_len) == current_len

\* the new length of a buffer: padded up to max_len, cut down to it if longer
TailLen(current_len, max_len) == max_len

\* zero padding at the tail, or the defensive cut
PadTail(data, max_len) ==
  IF Len(data) < TailLen(Len(data), max_len)
  THEN data \o Zeros(TailLen(Len(data), max_len) - Len(data))
  ELSE SliceRange(data, 0, TailLen(Len(data), max_len))

\* data[-len(window):] *= hann(2 f)[-f:], or the whole of a shorter buffer by window[:len]
FadeOut(data, f) ==
  LET n == Len(data)
  IN IF n >= f
     THEN Array([i \in 1..n |-> IF i > n - f
                                THEN MulMilli(data[i], hann(2 * f, f + (i - (n - f)) - 1))
                                ELSE data[i]])
     ELSE Array([i \in 1..n |-> MulMilli(data[i], hann(2 * f, f + i - 1))])

MaxLen(store) ==
  LET lens == {Len(store[s].left) : s \in DOMAIN store} \cup
              {Len(store[s].right) : s \in DOMAIN store}
  IN CHOOSE m \in lens : \A l \in lens : l <= m

CropTail(data, max_len, f) == FadeOut(PadTail(data, max_len), f)

crop_tails(sweep) ==
  /\ Idle
  /\ LET max_len == MaxLen(irs)
         f == FadeOutSamples(sweep, fs, max_len)
     IN IF RateMismatch
        THEN /\ irs' = irs
             /\ cropped' = cropped
             /\ last' = [op |-> "crop_tails", mismatch |-> TRUE, raised |-> TRUE]
        ELSE /\ irs' = [s \in DOMAIN irs |->
                          [left |-> CropTail(irs[s].left, max_len, f),
                           right |-> CropTail(irs[s].right, max_len, f)]]
             /\ cropped' = max_len
             /\ last' = [op |-> "crop_tails", mismatch |-> FALSE, raised |-> FALSE,
                         max_len |-> max_len, fade |-> f]
  /\ prev' = irs
  /\ steps' = steps + 1
  /\ UNCHANGED <<order, fs, logs, mic, corrector>>

-----------------------------------------------------------------------------
(* HRIR.resample *)

\* the rates callers resample to
ResampleRates == {2000}

\* ImpulseResponse.resample(fs): the buffer at the new rate
ResampleData(data, old_rate, new_rate) ==
  Array([i \in 1..((Len(data) * new_rate) \div old_rate) |->
           data[((i - 1) * old_rate) \div new_rate + 1]])

resample(rate) ==
  /\ Idle
  /\ irs' = [s \in DOMAIN irs |->
               [left |-> ResampleData(irs[s].left, fs, rate),
                right |-> ResampleData(irs[s].right, fs, rate)]]
  /\ fs' = rate
  /\ last' = [op |-> "resample", rate |-> rate, raised |-> FALSE]
  /\ cropped' = 0
  /\ prev' = irs
  /\ steps' = steps + 1
  /\ UNCHANGED <<order, logs, mic, corrector>>

-----------------------------------------------------------------------------
(* core/virtual_bass.py *)

\* the sample value that stands for 1.0
SampleOne == 64

\* the span, in samples, of the integer kernel that stands for a Butterworth
\* section with corner frequency freq: a quarter period
KernelSpan(freq, rate) == Max(1, rate \div (4 * freq)) + 1

\* sosfilt(low-pass at freq): a causal moving average over the kernel span
RECURSIVE TapSum(_, _, _)
TapSum(x, n, w) == IF w = 0 \/ n < 1 THEN 0 ELSE x[n] + TapSum(x, n - 1, w - 1)

LowPass(x, freq, rate) ==
  Array([n \in 1..Len(x) |->
           TruncDiv(TapSum(x, n, KernelSpan(freq, rate)), KernelSpan(freq, rate))])

\* sosfilt(high-pass at freq): what the low-pass leaves
HighPass(x, freq, rate) ==
  LET lp == LowPass(x, freq, rate) IN Array([n \in 1..Len(x) |-> x[n] - lp[n]])

\* _classify_speaker
LEFT_SIDE_SPEAKERS == {"FL", "SL", "BL", "WL", "TFL", "TSL", "TBL"}
RIGHT_SIDE_SPEAKERS == {"FR", "SR", "BR", "WR", "TFR", "TSR", "TBR"}

\* name.upper(), on the names handed to _classify_speaker
Upper(name) ==
  CASE name = "fl" -> "FL"
    [] name = "fr" -> "FR"
    [] name = "fc" -> "FC"
    [] name = "sR" -> "SR"
    [] name = "wl" -> "WL"
    [] name = "tfl" -> "TFL"
    [] name = "Tbr" -> "TBR"
    [] name = "unknown" -> "UNKNOWN"
    [] OTHER -> name

\* a classification that compares the name as it was given
ClassifyExactCase(name) ==
  IF name \in LEFT_SIDE_SPEAKERS THEN "left"
  ELSE IF name \in RIGHT_SIDE_SPEAKERS THEN "right"
  ELSE "center"

classify_speaker(name) ==
  LET name_upper == Upper(name)
  IN IF name_upper \in LEFT_SIDE_SPEAKERS THEN "left"
     ELSE IF name_upper \in RIGHT_SIDE_SPEAKERS THEN "right"
     ELSE "center"

\* _detect_polarity: the sign of the largest-magnitude sample, +1 for zero
detect_polarity(ir) == IF At(ir, ArgMaxAbs(ir)) >= 0 THEN 1 ELSE -1

\* _shift: numpy.roll(ir, n_samples)
shift(ir, n_samples) ==
  Array([i \in 1..Len(ir) |-> ir[((i - 1 - n_samples) % Len(ir)) + 1]])

\* _ILD_SHELF_TABLE: (min_crossover_hz, shelf_freq, shelf gain as a per-mille factor)
ILD_SHELF_TABLE ==
  << [min_crossover_hz |-> 80, shelf_freq |-> 50, gain_milli |-> 1413],
     [min_crossover_hz |-> 160, shelf_freq |-> 100, gain_milli |-> 1679],
     [min_crossover_hz |-> 250, shelf_freq |-> 150, gain_milli |-> 1995] >>

\* a selection that takes an entry only above its threshold
ShelfAboveThreshold(xo_hz) ==
  LET hits == {i \in 1..Len(ILD_SHELF_TABLE) : xo_hz > ILD_SHELF_TABLE[i].min_crossover_hz}
  IN IF hits = {} THEN [none |-> TRUE]
     ELSE LET best == CHOOSE i \in hits : \A j \in hits : j <= i
          IN [none |-> FALSE, shelf_freq |-> ILD_SHELF_TABLE[best].shelf_freq,
              gain_milli |-> ILD_SHELF_TABLE[best].gain_milli]

\* _build_ild_shelf: the last table entry whose threshold xo_hz reaches, or none
build_ild_shelf(xo_hz) ==
  LET hits == {i \in 1..Len(ILD_SHELF_TABLE) : xo_hz >= ILD_SHELF_TABLE[i].min_crossover_hz}
  IN IF hits = {} THEN [none |-> TRUE]
     ELSE LET best == CHOOSE i \in hits : \A j \in hits : j <= i
          IN [none |-> FALSE, shelf_freq |-> ILD_SHELF_TABLE[best].shelf_freq,
              gain_milli |-> ILD_SHELF_TABLE[best].gain_milli]

\* _apply_ild_shelf
apply_ild_shelf(ir, shelf_info, side, speaker_class, rate) ==
  IF shelf_info.none \/ speaker_class = "center" THEN ir
  ELSE LET lf_component == LowPass(ir, shelf_info.shelf_freq, rate)
           boost == (shelf_info.gain_milli - 1000) \div 2
           cut == (1000 - 1000000 \div shelf_info.gain_milli) \div 2
       IN IF speaker_class = side
          THEN Array([n \in 1..Len(ir) |-> ir[n] + MulMilli(lf_component[n], boost)])
          ELSE Array([n \in 1..Len(ir) |-> ir[n] - MulMilli(lf_component[n], cut)])

\* scipy.signal.minimum_phase refuses an h of 2 or fewer samples
MinPhaseFails(h_len) == h_len <= 2

\* minimum_phase(|rfft(x)|, 'homomorphic', n_fft): ceil(len(h) / 2) taps, the
\* magnitudes of x folded onto them (all energy at the front, none negative)
minimum_phase(x) ==
  LET h_len == Len(x) \div 2 + 1
      n_out == (h_len + 1) \div 2
      RECURSIVE fold(_, _)
      fold(i, j) == IF j > Len(x) THEN 0 ELSE Abs(x[j]) + fold(i, j + n_out)
  IN Array([i \in 1..n_out |-> fold(i, i)])

\* Step 4: the minimum-phase bass of length lp_len, or abs() when that fails
BassOf(ir_lp_corrected) ==
  LET lp_len == Len(ir_lp_corrected)
      ir_lp_padded == IF lp_len % 2 # 0 THEN Append(ir_lp_corrected, 0) ELSE ir_lp_corrected
  IN IF MinPhaseFails(Len(ir_lp_padded) \div 2 + 1)
     THEN Array([i \in 1..lp_len |-> Abs(ir_lp_corrected[i])])
     ELSE LET m == minimum_phase(ir_lp_padded)
          IN IF Len(m) < lp_len THEN m \o Zeros(lp_len - Len(m))
             ELSE SliceRange(m, 0, lp_len)

\* the bin the gain is matched at: computed once, from the first buffer seen
FreqIdx(store, crossover_freq, rate) ==
  LET dummy_len == Len(store[order[1]].left)
  IN NearestBin(crossover_freq, rate, dummy_len, dummy_len \div 2)

\* Step 6: |H[freq_idx]|, or 1.0 when the spectrum has no such bin
MagAtIdx(x, freq_idx, n_fft) ==
  IF freq_idx < n_fft \div 2 + 1 THEN DftMag(x, freq_idx, n_fft) ELSE SampleOne

\* Step 6: ir_bass *= gain, gain = mag_hp / mag_bass, or 1.0 for a vanishing mag_bass
GainMatch(ir_bass, mag_hp_at_xo, mag_bass_at_xo) ==
  IF mag_bass_at_xo > 0
  THEN Array([i \in 1..Len(ir_bass) |-> TruncDiv(ir_bass[i] * mag_hp_at_xo, mag_bass_at_xo)])
  ELSE ir_bass

\* a polarity step that keeps the sign whatever the flag says
PolarityKeepsSign(invert_polarity, ir_lp) ==
  IF invert_polarity = "auto" THEN detect_polarity(ir_lp) ELSE 1

\* Step 3: the polarity factor
Polarity(invert_polarity, ir_lp) ==
  IF invert_polarity = "auto" THEN detect_polarity(ir_lp)
  ELSE IF invert_polarity = "invert" THEN -1 ELSE 1

\* Step 9: the bass moved back so that its peak is at head_samples
AlignBass(ir_bass, head_samples) ==
  LET bass_peak_idx == ArgMaxAbs(ir_bass)
  IN IF bass_peak_idx > head_samples THEN shift(ir_bass, head_samples - bass_peak_idx)
     ELSE ir_bass

\* the body of the loop for one speaker and ear
VbassChannel(ir, speaker, side, a, freq_idx, rate) ==
  LET ir_hp == HighPass(ir, a.crossover_freq, rate)
      ir_lp == LowPass(ir, a.crossover_freq, rate)
      polarity == Polarity(a.invert_polarity, ir_lp)
      ir_lp_corrected == Array([i \in 1..Len(ir_lp) |-> ir_lp[i] * polarity])
      bass4 == BassOf(ir_lp_corrected)
      bass5 == HighPass(bass4, a.hp_freq, rate)
      mag_hp_at_xo == MagAtIdx(ir_hp, freq_idx, Len(ir_hp))
      mag_bass_at_xo == MagAtIdx(bass5, freq_idx, Len(ir_hp))
      bass6 == GainMatch(bass5, mag_hp_at_xo, mag_bass_at_xo)
      bass7 == Array([i \in 1..Len(bass6) |-> bass6[i] * polarity])
      bass8 == apply_ild_shelf(bass7, build_ild_shelf(a.crossover_freq), side,
                               classify_speaker(speaker), rate)
      bass9 == AlignBass(bass8, HeadSamples(a.head_tenths, rate))
      cut == SliceRange(bass9, 0, Len(ir_hp))
  IN [data |-> Array([i \in 1..Len(ir_hp) |-> ir_hp[i] + cut[i]]),
      ir_hp |-> ir_hp, bass |-> cut, polarity |-> polarity, freq_idx |-> freq_idx,
      mag_hp |-> mag_hp_at_xo, mag_bass |-> mag_bass_at_xo, unmatched |-> bass5,
      matched |-> bass6]

\* the arguments callers pass
VbassArgs ==
  { [crossover_freq |-> 250, invert_polarity |-> "auto", head_tenths |-> 10, hp_freq |-> 15],
    [crossover_freq |-> 250, invert_polarity |-> "invert", head_tenths |-> 10, hp_freq |-> 15],
    [crossover_freq |-> 100, invert_polarity |-> "normal", head_tenths |-> 10, hp_freq |-> 15],
    [crossover_freq |-> 500, invert_polarity |-> "auto", head_tenths |-> 10, hp_freq |-> 15] }

\* a Nyquist validation that lets the Nyquist frequency itself through
StrictlyAboveNyquist(crossover_freq, rate) == 2 * crossover_freq > rate

\* the Nyquist validation: crossover_freq >= fs / 2
AboveNyquist(crossover_freq, rate) == 2 * crossover_freq >= rate

\* the advisory for an unusually high crossover
HighCrossover(crossover_freq) ==
  IF crossover_freq > 300 THEN <<[log |-> "warning", key |-> "vbass_warning_high_crossover"]>>
  ELSE <<>>

\* apply_virtual_bass_to_hrir, with synthesize_virtual_bass inside it
apply_virtual_bass_to_hrir(a) ==
  /\ Idle
  /\ LET info == <<[log |-> "info", key |-> "vbass_status_processing"]>>
         success == <<[log |-> "success", key |-> "vbass_status_complete"]>>
         freq_idx == FreqIdx(irs, a.crossover_freq, fs)
         out == [s \in DOMAIN irs |->
                   [left |-> VbassChannel(irs[s].left, s, "left", a, freq_idx, fs),
                    right |-> VbassChannel(irs[s].right, s, "right", a, freq_idx, fs)]]
     IN IF AboveNyquist(a.crossover_freq, fs)
        THEN /\ irs' = irs
             /\ logs' = logs \o info \o <<[log |-> "error", key |-> "vbass_error_sr_limit"]>>
                             \o success
             /\ last' = [op |-> "vbass", args |-> a, aborted |-> TRUE, raised |-> FALSE,
                         logged |-> info \o <<[log |-> "error", key |-> "vbass_error_sr_limit"]>>
                                         \o success]
        ELSE /\ irs' = [s \in DOMAIN irs |->
                          [left |-> out[s].left.data, right |-> out[s].right.data]]
             /\ logs' = logs \o info \o HighCrossover(a.crossover_freq) \o success
             /\ last' = [op |-> "vbass", args |-> a, aborted |-> FALSE, raised |-> FALSE,
                         logged |-> info \o HighCrossover(a.crossover_freq) \o success,
                         out |-> out]
  /\ prev' = irs
  /\ steps' = steps + 1
  /\ UNCHANGED <<order, fs, mic, corrector, cropped>>

-----------------------------------------------------------------------------
(* microphone_deviation_correction.py: CrossValidatedMicrophoneCorrector *)

\* levels and deviations are integers, DB of them to the decibel
DB == 10000
\* 20 log10 of a doubling of power, in 1/DB dB
LevelStep == 30100
\* the level returned for a dead band or a vanishing magnitude: -100.0 dB
SilenceDb == -100

\* the default octave-band centres
DefaultBands == <<250, 500, 1000, 2000, 4000, 8000>>

\* self.octave_bands = [f for f in self.octave_bands if f < self.fs / 2]
octave_bands(rate) == SelectSeq(DefaultBands, LAMBDA f : 2 * f < rate)

\* self.expected_ild_sign.get(speaker, 0), per-mille
expected_ild_sign(speaker) ==
  CASE speaker \in {"FL", "SL"} -> 1000
    [] speaker \in {"FR", "SR"} -> -1000
    [] speaker = "BL" -> 800
    [] speaker = "BR" -> -800
    [] speaker \in {"TFL", "TBL", "TSL"} -> 500
    [] speaker \in {"TFR", "TBR", "TSR"} -> -500
    [] OTHER -> 0

\* the gate-cycle limits of __init__
MinGateCycles == 2
MaxGateCycles == 8

\* a gate length taken as computed, without the limits
GateUnclamped(bands, k, rate) ==
  LET n == Len(bands)
      den == IF n > 1 THEN n - 1 ELSE 2
      num == IF n > 1 THEN k ELSE 1
      cycles_num == MaxGateCycles * den - (MaxGateCycles - MinGateCycles) * num
  IN TruncDiv(cycles_num * rate, den * bands[k + 1])

\* _calculate_gate_lengths for the k-th of n bands (k from 0): the octave bands are
\* equally spaced in log frequency, so log_freq_ratio = k / (n - 1), and 0.5 for n = 1
gate_length(bands, k, rate) ==
  LET n == Len(bands)
      den == IF n > 1 THEN n - 1 ELSE 2
      num == IF n > 1 THEN k ELSE 1
      cycles_num == MaxGateCycles * den - (MaxGateCycles - MinGateCycles) * num
      gate_samples == TruncDiv(cycles_num * rate, den * bands[k + 1])
  IN Min(Max(gate_samples, 16), rate \div 10)

\* self.gate_lengths after _calculate_gate_lengths: one entry per key center_freq
calculate_gate_lengths(bands, rate) ==
  [f \in Range(bands) |->
     gate_length(bands, (CHOOSE k \in 1..Len(bands) : bands[k] = f) - 1, rate)]

\* np.linspace(1, 0, n)[j], per-mille
LinspaceDown(n, j) == IF n = 1 THEN 1000 ELSE 1000 - (1000 * j) \div (n - 1)

\* _apply_frequency_gate: the gate from the peak on, zero-padded, its last quarter faded
apply_frequency_gate(ir_data, gate, peak) ==
  LET end_idx == Min(peak + gate, Len(ir_data))
      gated_segment == SliceRange(ir_data, peak, end_idx)
      fade_length == Min(gate \div 4, 32)
      window(i) == IF fade_length > 0 /\ i >= gate - fade_length
                   THEN LinspaceDown(fade_length, i - (gate - fade_length)) ELSE 1000
  IN IF end_idx <= peak THEN Zeros(gate)
     ELSE Array([i \in 1..gate |->
                   IF i <= Len(gated_segment) THEN MulMilli(gated_segment[i], window(i - 1))
                   ELSE 0])

\* sosfilt(butter(4, [lower, upper], 'band')): the integer kernel that passes the
\* centre frequency and rejects DC, x[n] - x[n - half a period]
BandPass(x, center_freq, rate) ==
  LET half == Max(1, rate \div (2 * center_freq))
  IN Array([n \in 1..Len(x) |-> x[n] - (IF n > half THEN x[n - half] ELSE 0)])

\* lower_freq >= upper_freq, with upper_freq capped at 0.95 fs / 2
BandInvalid(center_freq, rate) == 10000 * center_freq >= 5332 * rate

\* 20 log10(magnitude) for magnitude > 0, else -100.0
LevelOf(re_milli, im_milli) ==
  IF re_milli = 0 /\ im_milli = 0 THEN SilenceDb * DB
  ELSE LET re == TruncDiv(re_milli, 1000)
           im == TruncDiv(im_milli, 1000)
       IN LevelStep * FloorLog2(Max(1, re * re + im * im))

\* _measure_band_level
measure_band_level(ir_data, bands, k, peak, rate) ==
  LET center_freq == bands[k + 1]
      filtered_ir == BandPass(ir_data, center_freq, rate)
      gated_ir == apply_frequency_gate(filtered_ir, gate_length(bands, k, rate), peak)
      fft_length == Max(2 * Len(gated_ir), 512)
      center_bin == NearestBin(center_freq, rate, fft_length, fft_length \div 2 - 1)
  IN IF BandInvalid(center_freq, rate) THEN SilenceDb * DB
     ELSE LevelOf(DftSum(gated_ir, center_bin, fft_length, 0, TRUE),
                  DftSum(gated_ir, center_bin, fft_length, 0, FALSE))

\* the deviations a speaker's two ears give: band -> left_level - right_level
MeasuredDeviations(pair, rate) ==
  LET bands == octave_bands(rate)
  IN [f \in Range(bands) |->
        measure_band_level(pair.left, bands, IndexOf(bands, f) - 1, peak_index(pair.left), rate)
        - measure_band_level(pair.right, bands, IndexOf(bands, f) - 1,
                             peak_index(pair.right), rate)]

\* CrossValidatedMicrophoneCorrector.__init__
NewCorrector(rate, strength) ==
  [made |-> TRUE, fs |-> rate, correction_strength |-> Min(Max(strength, 0), 1000),
   octave_bands |-> octave_bands(rate), keys |-> <<>>, all_speaker_deviations |-> <<>>,
   mic_error_estimate |-> <<>>, branch |-> <<>>, validation_result |-> <<>>,
   calls |-> <<>>]

\* self.all_speaker_deviations[speaker_name] = speaker_deviations
Stored(c, speaker_name, speaker_deviations) ==
  [c EXCEPT !.all_speaker_deviations =
               [s \in (DOMAIN @) \cup {speaker_name} |->
                  IF s = speaker_name THEN speaker_deviations ELSE @[s]],
            !.keys = IF speaker_name \in Range(@) THEN @ ELSE Append(@, speaker_name),
            !.calls = Append(@, "collect")]

\* collect_speaker_deviation
collect_speaker_deviation(c, speaker_name, pair) ==
  Stored(c, speaker_name, MeasuredDeviations(pair, c.fs))

\* np.median: the middle of the sorted values, the mean of the two middle ones
RECURSIVE Insert(_, _)
Insert(x, s) ==
  IF s = <<>> THEN <<x>>
  ELSE IF x <= Head(s) THEN <<x>> \o s
  ELSE <<Head(s)>> \o Insert(x, Tail(s))

RECURSIVE Sorted(_)
Sorted(s) == IF s = <<>> THEN <<>> ELSE Insert(Head(s), Sorted(Tail(s)))

median(s) ==
  LET v == Sorted(s)
      n == Len(v)
  IN IF n % 2 = 1 THEN v[(n + 1) \div 2]
     ELSE TruncDiv(v[n \div 2] + v[n \div 2 + 1], 2)

\* the comparison with the signs the wrong way round
IsAnomalousFlipped(expected_sign, deviation) ==
  \/ expected_sign > 500 /\ deviation > 0
  \/ expected_sign < -500 /\ deviation < 0

\* a deviation that contradicts a confident prior
IsAnomalous(expected_sign, deviation) ==
  \/ expected_sign > 500 /\ deviation < 0
  \/ expected_sign < -500 /\ deviation > 0

\* the comparison made strict: abs(expected_sign) < 0.5
IsNeutralStrict(expected_sign) == Abs(expected_sign) < 500

\* a speaker without a confident prior: abs(expected_sign) <= 0.5
IsNeutral(expected_sign) == Abs(expected_sign) <= 500

\* the whole median taken as microphone error
WholeShare(m) == m

\* np.median(all_devs) * 0.3
ConservativeShare(m) == TruncDiv(3 * m, 10)

\* the deviations at band freq of the collected speakers sorted into list kind
\* ("anomalous", "neutral" or "all"), in dict order
DeviationsAt(c, freq, kind) ==
  LET has(s) == freq \in DOMAIN c.all_speaker_deviations[s]
      keep(e, d) == CASE kind = "anomalous" -> IsAnomalous(e, d)
                      [] kind = "neutral" -> ~IsAnomalous(e, d) /\ IsNeutral(e)
                      [] OTHER -> TRUE
      chosen == SelectSeq(c.keys, LAMBDA s :
                  has(s) /\ keep(expected_ild_sign(s), c.all_speaker_deviations[s][freq]))
  IN Array([i \in 1..Len(chosen) |-> c.all_speaker_deviations[chosen[i]][freq]])

\* the body of the loop over self.octave_bands in separate_microphone_error
EstimateBand(c, freq) ==
  LET anomalous_deviations == DeviationsAt(c, freq, "anomalous")
      neutral_deviations == DeviationsAt(c, freq, "neutral")
      all_devs == DeviationsAt(c, freq, "all")
  IN IF anomalous_deviations # <<>>
     THEN [value |-> median(anomalous_deviations), branch |-> "anomalous"]
     ELSE IF neutral_deviations # <<>>
     THEN [value |-> median(neutral_deviations), branch |-> "neutral"]
     ELSE IF all_devs # <<>>
     THEN [value |-> ConservativeShare(median(all_devs)), branch |-> "fallback"]
     ELSE [value |-> 0, branch |-> "empty"]

\* separate_microphone_error: nothing collected returns {} and assigns nothing
separate_microphone_error(c) ==
  IF c.keys = <<>> THEN [c EXCEPT !.calls = Append(@, "separate")]
  ELSE [c EXCEPT !.mic_error_estimate =
                    [f \in Range(c.octave_bands) |-> EstimateBand(c, f).value],
                 !.branch = [f \in Range(c.octave_bands) |-> EstimateBand(c, f).branch],
                 !.calls = Append(@, "separate")]

\* a score without the near-neutral half point
SignMatchAllOrNothing(corrected_deviation, expected_sign) ==
  IF Sign(corrected_deviation) * Sign(expected_sign) > 0 THEN 1000 ELSE 0

\* the score of one (speaker, band): sign match 1.0, near-neutral 0.5, else 0
SignMatch(corrected_deviation, expected_sign) ==
  IF Sign(corrected_deviation) * Sign(expected_sign) > 0 THEN 1000
  ELSE IF Abs(corrected_deviation) < DB THEN 500
  ELSE 0

RECURSIVE SumSeq(_)
SumSeq(s) == IF s = <<>> THEN 0 ELSE Head(s) + SumSeq(Tail(s))

RECURSIVE Flatten(_)
Flatten(ss) == IF ss = <<>> THEN <<>> ELSE Head(ss) \o Flatten(Tail(ss))

\* validation_scores, band by band and speaker by speaker
ValidationScores(c) ==
  LET scored == SelectSeq(c.keys, LAMBDA s : Abs(expected_ild_sign(s)) > 300)
      of_band(f) ==
        IF f \notin DOMAIN c.mic_error_estimate THEN <<>>
        ELSE LET here == SelectSeq(scored, LAMBDA s : f \in DOMAIN c.all_speaker_deviations[s])
             IN Array([i \in 1..Len(here) |->
                   SignMatch(c.all_speaker_deviations[here[i]][f] - c.mic_error_estimate[f],
                             expected_ild_sign(here[i]))])
  IN Flatten(Array([k \in 1..Len(c.octave_bands) |-> of_band(c.octave_bands[k])]))

\* validate_consistency: the mean score is score_sum / score_count per-mille
validate_consistency(c) ==
  IF c.mic_error_estimate = <<>> \/ c.keys = <<>>
  THEN [c EXCEPT !.calls = Append(@, "validate")]
  ELSE LET scores == ValidationScores(c)
           n == IF scores = <<>> THEN 1 ELSE Len(scores)
           total == IF scores = <<>> THEN 500 ELSE SumSeq(scores)
       IN [c EXCEPT !.validation_result =
                       [score_sum |-> total, score_count |-> n,
                        is_valid |-> total > 400 * n,
                        confidence |-> IF total > 700 * n THEN "high"
                                       ELSE IF total > 500 * n THEN "medium" ELSE "low"],
                    !.calls = Append(@, "validate")]

\* max_correction_db = 6.0
MaxCorrectionDb == 6

\* a curve clipped first and scaled by the strength afterwards
ClippedThenScaled(c) ==
  [f \in DOMAIN c.mic_error_estimate |->
     MulMilli(Min(Max(c.mic_error_estimate[f], -(MaxCorrectionDb * DB)), MaxCorrectionDb * DB),
              c.correction_strength)]

\* correction_curve at the band centres: scaled by the strength, then clipped
CorrectionCurve(c) ==
  [f \in DOMAIN c.mic_error_estimate |->
     Min(Max(MulMilli(c.mic_error_estimate[f], c.correction_strength),
             -(MaxCorrectionDb * DB)), MaxCorrectionDb * DB)]

\* 10 ** (db / 20) to first order, per-mille
GainMilli(db) == 1000 + TruncDiv(115 * db, DB)

\* FrequencyResponse.minimum_phase_impulse_response: n taps with the energy at the
\* front; the first two carry the gains at the lowest and the highest band
minimum_phase_impulse_response(raw, n) ==
  LET lo == CHOOSE f \in DOMAIN raw : \A g \in DOMAIN raw : f <= g
      hi == CHOOSE f \in DOMAIN raw : \A g \in DOMAIN raw : g <= f
      g_lo == GainMilli(raw[lo])
      g_hi == GainMilli(raw[hi])
  IN Array([i \in 1..n |-> IF i = 1 THEN TruncDiv(g_lo + g_hi, 2)
                           ELSE IF i = 2 THEN TruncDiv(g_lo - g_hi, 2)
                           ELSE 0])

\* max_fir_length = min(1024, self.fs // 10)
MaxFirLength(rate) == Min(1024, rate \div 10)

\* np.array([1.0])
UnitImpulse == <<1000>>

\* design_correction_filters; lib_len is the length the FIR library returns, 0 when it raises
design_correction_filters(c, lib_len) ==
  IF c.mic_error_estimate = <<>> \/ lib_len = 0
  THEN [left_fir |-> UnitImpulse, right_fir |-> UnitImpulse, curve |-> <<>>,
        left_raw |-> <<>>, right_raw |-> <<>>]
  ELSE LET curve == CorrectionCurve(c)
           left_raw == [f \in DOMAIN curve |-> TruncDiv(-curve[f], 2)]
           right_raw == [f \in DOMAIN curve |-> TruncDiv(curve[f], 2)]
           cut(fir) == IF Len(fir) > MaxFirLength(c.fs)
                       THEN SliceRange(fir, 0, MaxFirLength(c.fs)) ELSE fir
       IN [left_fir |-> cut(minimum_phase_impulse_response(left_raw, lib_len)),
           right_fir |-> cut(minimum_phase_impulse_response(right_raw, lib_len)),
           curve |-> curve, left_raw |-> left_raw, right_raw |-> right_raw]

\* the length of a convolution of mode='full'
ConvolveLenFull(n, m) == n + m - 1

\* the length of signal.convolve(in1, in2, mode='same'): that of in1
ConvolveLen(n, m) == n

\* signal.convolve(data, fir, mode='same'): the full convolution, centred
convolve_same(data, fir) ==
  LET n == Len(data)
      m == Len(fir)
      off == (m - 1) \div 2
      term(k, j) == IF k - j >= 0 /\ k - j < m THEN At(data, j) * At(fir, k - j) ELSE 0
      RECURSIVE sum(_, _)
      sum(k, j) == IF j >= n THEN 0 ELSE term(k, j) + sum(k, j + 1)
  IN Array([i \in 1..ConvolveLen(n, m) |-> TruncDiv(sum(i - 1 + off, 0), 1000)])

-----------------------------------------------------------------------------
(* apply_microphone_deviation_correction_to_hrir, statement by statement *)

\* the correction_strength arguments callers pass, per-mille
MicStrengths == {700}

\* the lengths the FIR library returns; 0 stands for its raising
FirLibraryLengths == {0, 3, 128}

\* a pass 1 that hands over after its first speaker
PassOneStopsEarly(k, n) == k >= 1

\* a threshold of one speaker instead of two
NeedsFallbackBelowOne(count) == count < 1

\* the loop of pass 1 is over once it has visited every speaker of the Store
PassOneDone(k, n) == k >= n

\* len(corrector.all_speaker_deviations) < 2
NeedsFallback(count) == count < 2

\* the call: the corrector is made, nothing is measured yet
apply_microphone_deviation_correction_to_hrir(strength, lib_len) ==
  /\ Idle
  /\ corrector' = NewCorrector(fs, strength)
  /\ mic' = [pc |-> "collect", k |-> 1, lib_len |-> lib_len, speaker_data |-> <<>>,
             path |-> "pending", left_fir |-> <<>>, right_fir |-> <<>>]
  /\ last' = [op |-> "mic", strength |-> strength, lib_len |-> lib_len, raised |-> FALSE]
  /\ prev' = irs
  /\ steps' = steps + 1
  /\ UNCHANGED <<irs, order, fs, logs, cropped>>

\* pass 1, one iteration: collect the deviation of the next speaker, keep its buffers
PassOneCollect ==
  /\ mic.pc = "collect"
  /\ LET speaker == order[mic.k]
         c == collect_speaker_deviation(corrector, speaker, irs[speaker])
     IN /\ corrector' = c
        /\ mic' = [mic EXCEPT
                     !.k = @ + 1,
                     !.speaker_data = Append(@, speaker),
                     !.pc = IF ~PassOneDone(mic.k, Len(order)) THEN "collect"
                            ELSE IF NeedsFallback(Len(c.keys)) THEN "fallback"
                            ELSE "separate"]
  /\ UNCHANGED <<irs, order, fs, prev, last, logs, cropped, steps>>

\* step 2: separate; an empty estimate ends the call with an error result
StepSeparate ==
  /\ mic.pc = "separate"
  /\ LET c == separate_microphone_error(corrector)
     IN /\ corrector' = c
        /\ mic' = [mic EXCEPT !.path = IF c.mic_error_estimate = <<>> THEN "error" ELSE "cross",
                              !.pc = IF c.mic_error_estimate = <<>> THEN "idle" ELSE "validate"]
  /\ UNCHANGED <<irs, order, fs, prev, last, logs, cropped, steps>>

\* a de-rating that leaves the strength as it was
Undiminished(strength) == strength

\* corrector.correction_strength *= 0.5
Halved(strength) == strength \div 2

\* step 3: validate; a failed validation halves the strength
StepValidate ==
  /\ mic.pc = "validate"
  /\ LET c == validate_consistency(corrector)
     IN corrector' = IF c.validation_result.is_valid THEN c
                     ELSE [c EXCEPT !.correction_strength = Halved(@)]
  /\ mic' = [mic EXCEPT !.pc = "design"]
  /\ UNCHANGED <<irs, order, fs, prev, last, logs, cropped, steps>>

\* step 4, its first statement: design the two filters
StepDesign ==
  /\ mic.pc = "design"
  /\ LET d == design_correction_filters(corrector, mic.lib_len)
     IN mic' = [mic EXCEPT !.left_fir = d.left_fir, !.right_fir = d.right_fir,
                           !.k = 1, !.pc = "apply"]
  /\ corrector' = [corrector EXCEPT !.calls = Append(@, "design")]
  /\ UNCHANGED <<irs, order, fs, prev, last, logs, cropped, steps>>

\* _apply_single_speaker_fallback up to its loop: the raw deviation is the estimate
StepFallback ==
  /\ mic.pc = "fallback"
  /\ LET c == IF corrector.keys = <<>> THEN corrector
              ELSE [corrector EXCEPT
                      !.mic_error_estimate = corrector.all_speaker_deviations[corrector.keys[1]]]
         d == design_correction_filters(c, mic.lib_len)
     IN /\ corrector' = [c EXCEPT !.calls = Append(@, "design")]
        /\ mic' = [mic EXCEPT !.left_fir = d.left_fir, !.right_fir = d.right_fir,
                              !.path = "single", !.k = 1, !.pc = "apply"]
  /\ UNCHANGED <<irs, order, fs, prev, last, logs, cropped, steps>>

\* whether the loop convolves: both filters longer than one tap, the left one in the fallback
FiltersApply(path, left_fir, right_fir) ==
  IF path = "cross" THEN Len(left_fir) > 1 /\ Len(right_fir) > 1 ELSE Len(left_fir) > 1

\* pass 2, one iteration: convolve the next speaker's two buffers in place
PassTwoApply ==
  /\ mic.pc = "apply"
  /\ LET speaker == mic.speaker_data[mic.k]
     IN irs' = IF FiltersApply(mic.path, mic.left_fir, mic.right_fir)
               THEN [irs EXCEPT ![speaker] =
                       [left |-> convolve_same(irs[speaker].left, mic.left_fir),
                        right |-> convolve_same(irs[speaker].right, mic.right_fir)]]
               ELSE irs
  /\ mic' = [mic EXCEPT !.k = @ + 1,
                        !.pc = IF mic.k >= Len(mic.speaker_data) THEN "idle" ELSE "apply"]
  /\ UNCHANGED <<order, fs, prev, last, logs, corrector, cropped, steps>>

MicStep ==
  \/ PassOneCollect
  \/ StepSeparate
  \/ StepValidate
  \/ StepDesign
  \/ StepFallback
  \/ PassTwoApply

-----------------------------------------------------------------------------
(* the corrector used on its own: deviations collected, then separated and validated *)

\* number of speakers one corrector collects
MaxSpeakers == 3

\* the rates a corrector is made for
CorrectorRates == {EstimatorFs, 2 * EstimatorFs}

\* the speakers whose deviations are collected
CollectedSpeakers == {"FL", "FR", "FC", "SL", "TFL"}

\* the deviations a speaker is measured with: uniform over the bands, or tilted
DeviationProfiles == {"plus2", "minus2", "zero", "tilt"}

Profile(bands, p) ==
  [f \in Range(bands) |->
     CASE p = "plus2" -> 2 * DB
       [] p = "minus2" -> -2 * DB
       [] p = "zero" -> 0
       [] OTHER -> IF f = bands[1] THEN 3 * DB ELSE -DB]

InitMic ==
  /\ order = <<"FL", "FR">>
  /\ irs = Session(order, 1)
  /\ fs = EstimatorFs
  /\ prev = irs
  /\ last = NoLast
  /\ logs = <<>>
  /\ mic = NoMic
  /\ \E rate \in CorrectorRates : corrector = NewCorrector(rate, 700)
  /\ cropped = 0
  /\ steps = 0

\* collect_speaker_deviation with buffers that measure to the profile p
CollectProfile(speaker, p) ==
  /\ "separate" \notin Range(corrector.calls)
  /\ speaker \notin Range(corrector.keys)
  /\ Len(corrector.keys) < MaxSpeakers
  /\ corrector' = Stored(corrector, speaker, Profile(corrector.octave_bands, p))
  /\ UNCHANGED <<irs, order, fs, prev, last, logs, mic, cropped, steps>>

CallSeparate ==
  /\ "separate" \notin Range(corrector.calls)
  /\ corrector' = separate_microphone_error(corrector)
  /\ UNCHANGED <<irs, order, fs, prev, last, logs, mic, cropped, steps>>

CallValidate ==
  /\ "separate" \in Range(corrector.calls)
  /\ "validate" \notin Range(corrector.calls)
  /\ corrector' = validate_consistency(corrector)
  /\ UNCHANGED <<irs, order, fs, prev, last, logs, mic, cropped, steps>>

-----------------------------------------------------------------------------
(* HRIR.channel_balance_firs and HRIR.correct_channel_balance *)

\* the methods with a name
NamedMethods == {"mids", "trend", "left", "right", "avg", "min"}

\* the method arguments callers pass
BalanceMethods == NamedMethods \cup {"3", "-6", "8000", "abc"}

\* float(method): the value in dB, or the ValueError of a string that is no number
FloatOf(method) ==
  CASE method = "3" -> [ok |-> TRUE, db |-> 3]
    [] method = "-6" -> [ok |-> TRUE, db |-> -6]
    [] method = "8000" -> [ok |-> TRUE, db |-> 8000]
    [] OTHER -> [ok |-> FALSE]

\* the largest x for which 10 ** (x / 20) is a double: above it Python raises OverflowError
DoubleMaxDb == 6165

\* a power that never overflows
PowNeverOverflows(db) == FALSE

\* a power that overflows raises where one that underflows gives 0.0
PowOverflows(db) == db > DoubleMaxDb

\* gain = 10 ** (db / 20), per-mille, within the range the model's integers hold
BalanceGain(db) ==
  IF 115 * db <= -1000 THEN 0
  ELSE IF db > 1000 THEN 1000000
  ELSE GainMilli(db * DB)

\* signal.unit_impulse(n), per-mille
unit_impulse(n) == Array([i \in 1..n |-> IF i = 1 THEN 1000 ELSE 0])

\* n = int(round(self.fs * 0.1))
BalanceTaps(rate) == RoundHalfEven(rate, 10)

\* ImpulseResponse.frequency_response(): the level of the buffer at its first bin above DC
frequency_response(data) ==
  IF Len(data) < 2 THEN SilenceDb * DB
  ELSE LevelOf(DftSum(data, 1, Len(data), 0, TRUE), DftSum(data, 1, Len(data), 0, FALSE))

\* the length of the FIR FrequencyResponse.minimum_phase_impulse_response returns
BalanceFirLength == 3

\* a FIR of the library that applies gain_db everywhere
EqualizerFir(gain_db) == minimum_phase_impulse_response([f \in {0} |-> gain_db], BalanceFirLength)

\* the fixed-gain pair of 'mids' and of a numeric method
GainPair(gain_milli, rate) ==
  [raised |-> "none",
   left |-> unit_impulse(BalanceTaps(rate)),
   right |-> Array([i \in 1..BalanceTaps(rate) |-> IF i = 1 THEN gain_milli ELSE 0])]

\* channel_balance_firs: the pair of filters, or the exception raised
channel_balance_firs(left_fr, right_fr, method, rate) ==
  LET d == left_fr - right_fr
      unit == unit_impulse(BalanceFirLength)
  IN CASE method = "mids" -> GainPair(Max(0, GainMilli(d)), rate)
       [] method = "trend" -> [raised |-> "none", left |-> unit, right |-> EqualizerFir(d)]
       [] method = "left" -> [raised |-> "none", left |-> unit, right |-> EqualizerFir(d)]
       [] method = "right" -> [raised |-> "none", left |-> EqualizerFir(-d), right |-> unit]
       [] method = "avg" ->
            [raised |-> "none", left |-> EqualizerFir(TruncDiv(-d, 2)),
             right |-> EqualizerFir(TruncDiv(d, 2))]
       [] method = "min" ->
            [raised |-> "none", left |-> EqualizerFir(Min(0, -d)),
             right |-> EqualizerFir(Min(0, d))]
       [] OTHER ->
            IF ~FloatOf(method).ok THEN [raised |-> "ValueError"]
            ELSE IF PowOverflows(FloatOf(method).db) THEN [raised |-> "OverflowError"]
            ELSE GainPair(BalanceGain(FloatOf(method).db), rate)

\* ImpulseResponse.equalize(fir): the full convolution of the buffer with the filter
\* (the sum runs over the taps that are not zero)
equalize(data, fir) ==
  LET n == Len(data)
      m == Len(fir)
      taps == SelectSeq(Array([t \in 1..m |-> t]), LAMBDA t : fir[t] # 0)
      RECURSIVE sum(_, _)
      sum(i, k) == IF k > Len(taps) THEN 0
                   ELSE (IF i - taps[k] + 1 >= 1 /\ i - taps[k] + 1 <= n
                         THEN data[i - taps[k] + 1] * fir[taps[k]] ELSE 0) + sum(i, k + 1)
  IN IF n = 0 \/ m = 0 THEN <<>>
     ELSE Array([i \in 1..(n + m - 1) |-> TruncDiv(sum(i, 1), 1000)])

\* the symmetric groups, in the order they are visited
BalanceGroups == << <<"FC">>, <<"FL", "FR">>, <<"SL", "SR">>, <<"BL", "BR">> >>


\* len([ch for ch in speakers if ch in self.irs]) < len(speakers) is false
GroupComplete(store, speakers) == \A i \in 1..Len(speakers) : speakers[i] \in DOMAIN store

\* np.vstack refuses rows of different lengths
StackFits(store, speakers, ear) ==
  \A i, j \in 1..Len(speakers) : Len(Ear(store[speakers[i]], ear)) = Len(Ear(store[speakers[j]], ear))

\* np.mean(np.vstack(rows), axis=0)
StackMean(store, speakers, ear) ==
  LET RECURSIVE total(_, _)
      total(i, k) == IF k > Len(speakers) THEN 0
                     ELSE Ear(store[speakers[k]], ear)[i] + total(i, k + 1)
  IN Array([i \in 1..Len(Ear(store[speakers[1]], ear)) |-> TruncDiv(total(i, 1), Len(speakers))])

\* an assignment loop that reaches every speaker of the Store
InStore(s, speakers) == TRUE

\* for speaker in speakers: the speakers the filters are applied to
InGroup(s, speakers) == s \in Range(speakers)

\* the body of the loop over the groups, for a complete group
BalanceGroup(st, speakers, method, rate) ==
  IF ~StackFits(st.irs, speakers, "left") \/ ~StackFits(st.irs, speakers, "right")
  THEN [st EXCEPT !.raised = "ValueError"]
  ELSE LET left_fr == frequency_response(StackMean(st.irs, speakers, "left"))
           right_fr == frequency_response(StackMean(st.irs, speakers, "right"))
           firs == channel_balance_firs(left_fr, right_fr, method, rate)
           call == [speakers |-> speakers, method |-> method, firs |-> firs]
       IN IF firs.raised # "none"
          THEN [st EXCEPT !.raised = firs.raised, !.calls = Append(@, call)]
          ELSE [irs |-> [s \in DOMAIN st.irs |->
                           IF InGroup(s, speakers)
                           THEN [left |-> equalize(st.irs[s].left, firs.left),
                                 right |-> equalize(st.irs[s].right, firs.right)]
                           ELSE st.irs[s]],
                raised |-> "none",
                processed |-> st.processed \cup Range(speakers),
                calls |-> Append(st.calls, call)]

RECURSIVE BalanceLoop(_, _, _, _)
BalanceLoop(st, g, method, rate) ==
  IF g > Len(BalanceGroups) \/ st.raised # "none" THEN st
  ELSE IF ~GroupComplete(st.irs, BalanceGroups[g]) THEN BalanceLoop(st, g + 1, method, rate)
  ELSE BalanceLoop(BalanceGroup(st, BalanceGroups[g], method, rate), g + 1, method, rate)

correct_channel_balance(method) ==
  /\ Idle
  /\ LET st == BalanceLoop([irs |-> irs, raised |-> "none", processed |-> {}, calls |-> <<>>],
                           1, method, fs)
     IN /\ irs' = st.irs
        /\ last' = [op |-> "balance", method |-> method, raised |-> st.raised,
                    processed |-> st.processed, calls |-> st.calls]
  /\ cropped' = 0
  /\ prev' = irs
  /\ steps' = steps + 1
  /\ UNCHANGED <<order, fs, logs, mic, corrector>>

\* the speaker layouts channel balance is called on
BalanceLayouts ==
  { <<"FL", "FR">>, <<"FC", "FL">>, <<"FL", "FR", "SL">>, <<"SL", "SR", "TFL">>,
    <<"FC", "FL", "FR">>, <<"SR", "TFR">> }

\* layouts with the wide pair and the LFE channel, which _classify_speaker lists
SideLayouts ==
  { <<"WL">>, <<"WL", "WR">>, <<"FL", "WL">>, <<"FC", "LFE">>, <<"WR", "TFR">> }

\* the Store as the estimator fills it, for a layout of SideLayouts
InitSide ==
  /\ order \in SideLayouts
  /\ \E k \in 1..Len(Measurements) : irs = Session(order, k)
  /\ fs = EstimatorFs
  /\ prev = irs
  /\ last = NoLast
  /\ logs = <<>>
  /\ mic = NoMic
  /\ corrector = NoCorrector
  /\ cropped = 0
  /\ steps = 0

\* the Store as the estimator fills it, for a layout of BalanceLayouts
InitBalance ==
  /\ order \in BalanceLayouts
  /\ \E k \in 1..Len(Measurements) : irs = Session(order, k)
  /\ fs = EstimatorFs
  /\ prev = irs
  /\ last = NoLast
  /\ logs = <<>>
  /\ mic = NoMic
  /\ corrector = NoCorrector
  /\ cropped = 0
  /\ steps = 0

-----------------------------------------------------------------------------
(* the helpers called on their own: _build_ild_shelf, _classify_speaker, and the
   construction of a corrector *)

\* crossover frequencies around the thresholds of the shelf table
ShelfCrossovers == {20, 50, 79, 80, 81, 100, 159, 160, 161, 249, 250, 251, 500}

\* speaker names: the listed ones, spellings in other cases, and names not listed
ClassifiedNames ==
  LEFT_SIDE_SPEAKERS \cup RIGHT_SIDE_SPEAKERS
    \cup {"FC", "LFE", "BC", "SW", "UNKNOWN", "L", "FLR", "",
          "fl", "fr", "fc", "sR", "wl", "tfl", "Tbr", "unknown"}

\* sampling rates a corrector is constructed with
ConstructionRates == {400, 500, 501, 1000, 2000, 8000, 16000, 16001, 44100, 48000, 96000}

InitHelpers ==
  /\ order = <<"FL">>
  /\ irs = Session(order, 1)
  /\ fs = EstimatorFs
  /\ prev = irs
  /\ last = NoLast
  /\ logs = <<>>
  /\ mic = NoMic
  /\ corrector = NoCorrector
  /\ cropped = 0
  /\ steps = 0

CallBuildIldShelf(xo_hz) ==
  /\ Idle
  /\ last' = [op |-> "build_ild_shelf", xo_hz |-> xo_hz, shelf |-> build_ild_shelf(xo_hz)]
  /\ steps' = steps + 1
  /\ UNCHANGED <<irs, order, fs, prev, logs, mic, corrector, cropped>>

CallClassifySpeaker(name) ==
  /\ Idle
  /\ last' = [op |-> "classify_speaker", name |-> name, side |-> classify_speaker(name)]
  /\ steps' = steps + 1
  /\ UNCHANGED <<irs, order, fs, prev, logs, mic, corrector, cropped>>

\* CrossValidatedMicrophoneCorrector(sample_rate): the bands kept and their gates
ConstructCorrector(rate) ==
  /\ Idle
  /\ corrector' = NewCorrector(rate, 700)
  /\ last' = [op |-> "corrector", rate |-> rate,
              gate_lengths |-> calculate_gate_lengths(octave_bands(rate), rate)]
  /\ steps' = steps + 1
  /\ UNCHANGED <<irs, order, fs, prev, logs, mic, cropped>>

-----------------------------------------------------------------------------
(* The specifications *)

Next ==
  \/ \E h \in HeadMsTenths : crop_heads(h)
  \/ \E p \in SpeakerPairLists, m \in SegmentMs : align_ipsilateral_all(p, m)
  \/ \E w \in Sweeps : crop_tails(w)
  \/ \E r \in ResampleRates : resample(r)

NextPost ==
  \/ \E h \in HeadMsTenths : crop_heads(h)
  \/ \E w \in Sweeps : crop_tails(w)
  \/ \E a \in VbassArgs : apply_virtual_bass_to_hrir(a)
  \/ \E g \in MicStrengths, n \in FirLibraryLengths :
       apply_microphone_deviation_correction_to_hrir(g, n)
  \/ MicStep

NextMic ==
  \/ \E s \in CollectedSpeakers, p \in DeviationProfiles : CollectProfile(s, p)
  \/ CallSeparate
  \/ CallValidate

\* channel balance is the last stage that shapes the Store
NextBalance ==
  \/ \E h \in HeadMsTenths : last.op # "balance" /\ crop_heads(h)
  \/ \E w \in Sweeps : last.op # "balance" /\ crop_tails(w)
  \/ \E m \in BalanceMethods : last.op # "balance" /\ correct_channel_balance(m)

\* virtual bass and the microphone correction, the two stages that derive a side
NextSide ==
  \/ \E a \in VbassArgs : apply_virtual_bass_to_hrir(a)
  \/ \E g \in MicStrengths, n \in FirLibraryLengths :
       apply_microphone_deviation_correction_to_hrir(g, n)
  \/ MicStep

NextHelpers ==
  \/ \E xo_hz \in ShelfCrossovers : CallBuildIldShelf(xo_hz)
  \/ \E name \in ClassifiedNames : CallClassifySpeaker(name)
  \/ \E rate \in ConstructionRates : ConstructCorrector(rate)

Spec == Init /\ [][Next]_vars

SpecPost == Init /\ [][NextPost]_vars

SpecMic == InitMic /\ [][NextMic]_vars

SpecBalance == InitBalance /\ [][NextBalance]_vars

SpecSide == InitSide /\ [][NextSide]_vars

SpecHelpers == InitHelpers /\ [][NextHelpers]_vars

-----------------------------------------------------------------------------
(* Properties *)

Ears == {"left", "right"}

\* s[i] of the buffer extended by zeros on both sides
Val(s, i) == IF i >= 1 /\ i <= Len(s) THEN s[i] ELSE 0

\* a is b moved d >= 0 samples later, nothing else changed, and b is not silent
LaterBy(a, b, d) ==
  /\ \E i \in 1..Len(b) : b[i] # 0
  /\ \A i \in 1..Max(Len(a), Len(b) + d) : Val(a, i) = Val(b, i - d)

\* the two responses of an aligned same-side pair differ only by the delay
\* peak_a - peak_b
PureDelay(r) ==
  /\ LastChar(r.a) = LastChar(r.b)
  /\ IF r.peak_a >= r.peak_b THEN LaterBy(r.ir_a, r.ir_b, r.peak_a - r.peak_b)
     ELSE LaterBy(r.ir_b, r.ir_a, r.peak_b - r.peak_a)

\* C1: after crop_heads, every speaker's two ears were cropped from the same index,
\* and that index is near_peak - delay, near_peak being the smaller of the two peaks
C1_CropStartIsNearPeak ==
  (last.op = "crop_heads" /\ ~last.mismatch) =>
    \A s \in DOMAIN last.done :
      last.done[s].start
        = Min(last.done[s].peak_left, last.done[s].peak_right) - last.done[s].delay

\* a crop_heads call that cropped a speaker whose two peaks differ
C1_Reached ==
  /\ last.op = "crop_heads"
  /\ ~last.mismatch
  /\ \E s \in DOMAIN last.done : last.done[s].peak_left # last.done[s].peak_right

\* C2: for a pair whose two responses differ only by an integer delay D, the delay
\* align_ipsilateral_all recovers is D, and after the call the two peaks coincide
C2_PureDelayRecovered ==
  last.op = "align" =>
    \A i \in 1..Len(last.done) :
      PureDelay(last.done[i]) =>
        /\ last.done[i].delay = last.done[i].peak_a - last.done[i].peak_b
        /\ peak_index(Ear(irs[last.done[i].a], last.done[i].ear))
             = peak_index(Ear(irs[last.done[i].b], last.done[i].ear))

\* an aligned pair whose responses differ by a pure delay of at least one sample
C2_Reached ==
  /\ last.op = "align"
  /\ \E i \in 1..Len(last.done) :
       PureDelay(last.done[i]) /\ last.done[i].peak_a # last.done[i].peak_b

\* C3: after crop_tails every buffer has the length of the longest buffer before the
\* call; what was added to a shorter buffer is zeros after its old end, the samples
\* before the fade-out are the old ones, and no buffer is shorter than it was
C3_TailsPaddedToMax ==
  (last.op = "crop_tails" /\ ~last.raised) =>
    \A s \in DOMAIN irs : \A ear \in Ears :
      /\ Len(Ear(irs[s], ear)) = MaxLen(prev)
      /\ Len(Ear(irs[s], ear)) >= Len(Ear(prev[s], ear))
      /\ \A i \in (Len(Ear(prev[s], ear)) + 1)..Len(Ear(irs[s], ear)) :
           Ear(irs[s], ear)[i] = 0
      /\ \A i \in 1..Len(Ear(prev[s], ear)) :
           i <= MaxLen(prev) - last.fade => Ear(irs[s], ear)[i] = Ear(prev[s], ear)[i]

\* a crop_tails call that found buffers of different lengths and extended one
C3_Witness ==
  /\ last.op = "crop_tails"
  /\ ~last.raised
  /\ \E s \in DOMAIN irs : \E ear \in Ears :
       Len(Ear(prev[s], ear)) < Len(Ear(irs[s], ear))

\* C4: from the crop_tails call that made the buffers one length on, and as long as
\* only virtual bass and microphone correction are called, every buffer keeps that length
C4_LengthKept ==
  cropped > 0 =>
    \A s \in DOMAIN irs : \A ear \in Ears : Len(Ear(irs[s], ear)) = cropped

\* a corrector call that returned after convolving buffers which crop_tails had
\* brought to one length, shorter than the measured one
C4_Witness ==
  /\ cropped > 0
  /\ cropped < IrLen
  /\ last.op = "mic"
  /\ mic.pc = "idle"
  /\ irs # prev

\* C5: a virtual-bass call with crossover_freq >= fs / 2 logs the error, raises
\* nothing and leaves every buffer as it was
C5_NyquistAbort ==
  (last.op = "vbass" /\ 2 * last.args.crossover_freq >= fs) =>
    /\ irs = prev
    /\ ~last.raised
    /\ \E i \in 1..Len(last.logged) :
         last.logged[i] = [log |-> "error", key |-> "vbass_error_sr_limit"]

\* a virtual-bass call at the Nyquist frequency on a Store the stages have shaped
C5_Witness ==
  /\ last.op = "vbass"
  /\ 2 * last.args.crossover_freq >= fs
  /\ steps > 1

\* C6: during a corrector call no buffer differs from what it was at the call until
\* every speaker of the Store has been collected, and every collected deviation is
\* the one measured on the buffers as they were at the call
C6_TwoPasses ==
  last.op = "mic" =>
    /\ irs # prev => Range(order) \subseteq Range(corrector.keys)
    /\ \A s \in Range(corrector.keys) :
         corrector.all_speaker_deviations[s] = MeasuredDeviations(prev[s], fs)

\* pass 2 under way in a Store of two speakers: the first is corrected, the second not yet
C6_Witness ==
  /\ last.op = "mic"
  /\ mic.pc = "apply"
  /\ mic.k = 2
  /\ Len(order) = 2
  /\ irs # prev

\* C7: the corrector takes the cross-validated path exactly when two or more speakers
\* were collected; with fewer it takes the single-speaker path, whose estimate is that
\* speaker's raw deviation, with no separation and no validation; nothing is raised
C7_PathByCount ==
  (last.op = "mic" /\ mic.path # "pending") =>
    /\ mic.path \in {"cross", "error"} <=> Len(corrector.keys) >= 2
    /\ mic.path = "single" <=> Len(corrector.keys) < 2
    /\ mic.path = "single" =>
         /\ corrector.mic_error_estimate = corrector.all_speaker_deviations[corrector.keys[1]]
         /\ "separate" \notin Range(corrector.calls)
         /\ "validate" \notin Range(corrector.calls)
    /\ (mic.path = "cross" /\ mic.pc \in {"apply", "idle"}) =>
         SubSeq(corrector.calls, Len(corrector.keys) + 1, Len(corrector.calls))
           = <<"separate", "validate", "design">>
    /\ ~last.raised

\* a corrector call on a Store of one speaker that returned with the buffers corrected
C7_Witness ==
  /\ last.op = "mic"
  /\ mic.path = "single"
  /\ mic.pc = "idle"
  /\ Len(corrector.keys) = 1
  /\ irs # prev

\* the corrector has separated, with two or more speakers that all deviate by +2 dB
UniformPlusTwo ==
  /\ corrector.made
  /\ "separate" \in Range(corrector.calls)
  /\ Len(corrector.keys) >= 2
  /\ \A s \in Range(corrector.keys) : \A f \in Range(corrector.octave_bands) :
       corrector.all_speaker_deviations[s][f] = 2 * DB

\* the estimate is +2 dB at every band and leaves no deviation
RecoversPlusTwo ==
  \A f \in Range(corrector.octave_bands) :
    /\ corrector.mic_error_estimate[f] = 2 * DB
    /\ \A s \in Range(corrector.keys) :
         corrector.all_speaker_deviations[s][f] - corrector.mic_error_estimate[f] = 0

\* C8 as stated: two or more speakers that all deviate by +2 dB at every band give
\* an estimate of +2 dB at every band, and deviation minus estimate is 0 everywhere
C8_UniformRecovered == UniformPlusTwo => RecoversPlusTwo

\* C8, amended: the same, provided one of the speakers has a prior of at most 0.5
\* (a right-side speaker, which +2 dB contradicts, or a centre or ceiling speaker)
C8_UniformRecoveredWithReference ==
  (UniformPlusTwo /\ \E s \in Range(corrector.keys) : expected_ild_sign(s) <= 500)
    => RecoversPlusTwo

\* three speakers at +2 dB, a reference among them, separated
C8_Witness ==
  /\ UniformPlusTwo
  /\ Len(corrector.keys) = 3
  /\ \E s \in Range(corrector.keys) : expected_ild_sign(s) <= 500
  /\ \E s \in Range(corrector.keys) : expected_ild_sign(s) > 500

\* the corrector has separated with one speaker, whose deviation has the sign of its prior
SingleMatchingPrior ==
  /\ corrector.made
  /\ "separate" \in Range(corrector.calls)
  /\ Len(corrector.keys) = 1
  /\ \A f \in Range(corrector.octave_bands) :
       Sign(corrector.all_speaker_deviations[corrector.keys[1]][f])
         = Sign(expected_ild_sign(corrector.keys[1]))

\* every band's estimate is 0.3 times the speaker's deviation, from the fallback branch
FromConservativeBranch ==
  \A f \in Range(corrector.octave_bands) :
    /\ corrector.branch[f] = "fallback"
    /\ 10 * corrector.mic_error_estimate[f]
         = 3 * corrector.all_speaker_deviations[corrector.keys[1]][f]

\* C9 as stated: one speaker whose deviation matches its prior gets its estimate from
\* the 0.3 x median branch
C9_SingleUsesFallback == SingleMatchingPrior => FromConservativeBranch

\* C9, amended: the same for a speaker whose prior is larger than 0.5 in magnitude
C9_ConfidentSingleUsesFallback ==
  (SingleMatchingPrior /\ Abs(expected_ild_sign(corrector.keys[1])) > 500)
    => FromConservativeBranch

\* one left-side speaker at +2 dB, separated
C9_Witness ==
  /\ SingleMatchingPrior
  /\ Abs(expected_ild_sign(corrector.keys[1])) > 500
  /\ \A f \in Range(corrector.octave_bands) :
       corrector.all_speaker_deviations[corrector.keys[1]][f] # 0

\* C10: crop_heads on a Store whose rate differs from the estimator's raises, and
\* leaves every buffer as it was
C10_MismatchRaises ==
  (last.op = "crop_heads" /\ fs # EstimatorFs) => (last.raised /\ irs = prev)

\* crop_heads called after resample moved the Store to another rate
C10_Witness ==
  /\ last.op = "crop_heads"
  /\ fs # EstimatorFs
  /\ last.raised
  /\ steps > 1

\* the calls of channel_balance_firs the last correct_channel_balance made
FirsCalls == IF last.op = "balance" THEN Range(last.calls) ELSE {}

InCompleteGroup ==
  {s \in DOMAIN prev : \E g \in 1..Len(BalanceGroups) :
     s \in Range(BalanceGroups[g]) /\ GroupComplete(prev, BalanceGroups[g])}

\* C12: correct_channel_balance filters only speakers of groups whose members are all
\* in the Store; the buffers of every other speaker are what they were
C12_OnlyCompleteGroups ==
  last.op = "balance" =>
    /\ last.processed \subseteq InCompleteGroup
    /\ \A s \in DOMAIN irs : s \notin InCompleteGroup => irs[s] = prev[s]
    /\ last.raised = "none" => last.processed = InCompleteGroup

\* a call that filtered a complete group and left another speaker of the Store alone
C12_Witness ==
  /\ last.op = "balance"
  /\ last.raised = "none"
  /\ last.processed # {}
  /\ \E s \in DOMAIN irs : s \notin last.processed /\ irs[s] = prev[s]
  /\ \E s \in last.processed : irs[s] # prev[s]

\* the side letter of the code contradicts the ear the sound reached first
SideContradicted(speaker) ==
  \/ LastChar(speaker) = "R" /\ peak_index(prev[speaker].left) < peak_index(prev[speaker].right)
  \/ LastChar(speaker) = "L" /\ peak_index(prev[speaker].right) < peak_index(prev[speaker].left)

\* C13: crop_heads warns about every speaker whose side letter contradicts the near
\* ear, raises nothing and crops every speaker of the Store
C13_ContradictionWarned ==
  (last.op = "crop_heads" /\ ~last.mismatch) =>
    /\ \A s \in Range(order) :
         SideContradicted(s) => \E i \in 1..Len(last.warned) : last.warned[i].speaker = s
    /\ ~last.raised
    /\ DOMAIN last.done = Range(order)

\* a crop_heads call that warned about a contradicted speaker and went on to the next one
C13_Reached ==
  /\ last.op = "crop_heads"
  /\ ~last.raised
  /\ Len(order) = 2
  /\ SideContradicted(order[1])
  /\ \E i \in 1..Len(last.warned) : last.warned[i].speaker = order[1]
  /\ DOMAIN last.done = Range(order)

\* the side a trailing letter encodes, "none" for a code that ends in no side letter
TrailingSide(speaker) ==
  CASE LastChar(speaker) = "L" -> "left"
    [] LastChar(speaker) = "R" -> "right"
    [] LastChar(speaker) = "C" -> "center"
    [] OTHER -> "none"

\* the side the sign of the corrector's directional prior stands for
PriorSide(speaker) ==
  CASE expected_ild_sign(speaker) > 0 -> "left"
    [] expected_ild_sign(speaker) < 0 -> "right"
    [] OTHER -> "center"

\* C14: for every speaker of the Store the virtual-bass classification and the
\* sign of the corrector's directional prior give the same side, and so does
\* the trailing letter wherever the code ends in L, R or C
C14_SidesAgree ==
  \A s \in DOMAIN irs :
    /\ PriorSide(s) = classify_speaker(s)
    /\ TrailingSide(s) # "none" => TrailingSide(s) = classify_speaker(s)

\* the corrector has separated the deviations of a Store that holds the wide left
\* speaker, and took them as neutral
C14_Reached ==
  /\ last.op = "mic"
  /\ corrector.made
  /\ "WL" \in Range(corrector.keys)
  /\ "separate" \in Range(corrector.calls)

\* the element-wise negation of a buffer
Negated(x) == Array([i \in 1..Len(x) |-> -x[i]])

\* the flag opposite to an explicit invert_polarity
OtherFlag(flag) == IF flag = "invert" THEN "normal" ELSE "invert"

\* what the last virtual-bass call would have made of one buffer with the flag flipped
FlippedChannel(s, ear) ==
  VbassChannel(prev[s][ear], s, ear,
               [last.args EXCEPT !.invert_polarity = OtherFlag(last.args.invert_polarity)],
               FreqIdx(prev, last.args.crossover_freq, fs), fs)

\* the last call was a virtual-bass synthesis with an explicit polarity flag
ExplicitPolarityCall ==
  /\ last.op = "vbass"
  /\ ~last.aborted
  /\ last.args.invert_polarity \in {"invert", "normal"}

\* C15: for the same buffers and parameters, the bass added with invert_polarity
\* set is the exact negation of the bass added with it cleared, and the
\* high-passed original part is the same in both
C15_PolarityNegatesBass ==
  ExplicitPolarityCall =>
    \A s \in DOMAIN prev : \A ear \in {"left", "right"} :
      /\ last.out[s][ear].bass = Negated(FlippedChannel(s, ear).bass)
      /\ last.out[s][ear].ir_hp = FlippedChannel(s, ear).ir_hp

\* an inverted synthesis that added a bass component which is not silent
C15_Witness ==
  /\ ExplicitPolarityCall
  /\ last.args.invert_polarity = "invert"
  /\ \E s \in DOMAIN prev : \E i \in 1..Len(last.out[s].left.bass) :
        last.out[s].left.bass[i] # 0

\* the bin of a channel's own spectrum nearest to the crossover frequency
CrossoverBin(n_fft, crossover_freq, rate) ==
  NearestBin(crossover_freq, rate, n_fft, n_fft \div 2)

\* the rounding a magnitude of n samples carries after a scaling by mag_hp / mag_bass
MatchTolerance(n, mag_hp, mag_bass) == n + 3 + ((n + 3) * mag_hp) \div mag_bass

\* one channel is gain-matched at its crossover bin, or left alone for a silent bass
ChannelMatched(ch, crossover_freq, rate) ==
  LET n == Len(ch.ir_hp)
      k == CrossoverBin(n, crossover_freq, rate)
      mag_hp == DftMag(ch.ir_hp, k, n)
      mag_bass == DftMag(ch.unmatched, k, n)
  IN IF mag_bass > 0
     THEN Abs(DftMag(ch.matched, k, n) - mag_hp) <= MatchTolerance(n, mag_hp, mag_bass)
     ELSE ch.matched = ch.unmatched

\* C16: after the gain-matching step of a synthesis, for each channel the
\* magnitude of the bass at the crossover frequency bin equals that of the
\* high-passed original at that bin, up to rounding; a bass that is silent at
\* that bin is not scaled
C16_GainMatchedAtCrossover ==
  (last.op = "vbass" /\ ~last.aborted) =>
    \A s \in DOMAIN prev : \A ear \in {"left", "right"} :
      ChannelMatched(last.out[s][ear], last.args.crossover_freq, fs)

\* a synthesis on a Store whose buffers differ in length, so that the bin taken
\* from the first buffer is not a later channel's crossover bin
C16_Reached ==
  /\ last.op = "vbass"
  /\ ~last.aborted
  /\ \E s \in DOMAIN prev :
        /\ Len(prev[s].left) # Len(prev[order[1]].left)
        /\ last.out[s].left.freq_idx
             # CrossoverBin(Len(prev[s].left), last.args.crossover_freq, fs)

\* the corrector has separated the deviations of at least one speaker
Separated == corrector.made /\ corrector.keys # <<>> /\ "separate" \in Range(corrector.calls)

\* deviations at band f of speakers with a prior above 0.5 in magnitude and a
\* deviation of the opposite sign
OppositeAt(f) ==
  LET chosen == SelectSeq(corrector.keys, LAMBDA s :
                  /\ Abs(expected_ild_sign(s)) > 500
                  /\ Sign(corrector.all_speaker_deviations[s][f])
                       = -Sign(expected_ild_sign(s)))
  IN Array([i \in 1..Len(chosen) |-> corrector.all_speaker_deviations[chosen[i]][f]])

\* deviations at band f of speakers with a prior of at most 0.5 in magnitude
UnbiasedAt(f) ==
  LET chosen == SelectSeq(corrector.keys, LAMBDA s : Abs(expected_ild_sign(s)) <= 500)
  IN Array([i \in 1..Len(chosen) |-> corrector.all_speaker_deviations[chosen[i]][f]])

\* deviations at band f of every collected speaker
EveryAt(f) ==
  Array([i \in 1..Len(corrector.keys) |-> corrector.all_speaker_deviations[corrector.keys[i]][f]])

Validated == corrector.made /\ "validate" \in Range(corrector.calls)

\* the (speaker, band) pairs whose prior is above 0.3 in magnitude
ScoredPairs ==
  {<<s, f>> \in Range(corrector.keys) \X Range(corrector.octave_bands) :
     Abs(expected_ild_sign(s)) > 300}

\* the score of one pair: 1.0 for the prior's sign, else 0.5 within 1 dB, else 0
PairScore(s, f) ==
  LET corrected == corrector.all_speaker_deviations[s][f] - corrector.mic_error_estimate[f]
  IN IF corrected # 0 /\ Sign(corrected) = Sign(expected_ild_sign(s)) THEN 1000
     ELSE IF Abs(corrected) < DB THEN 500
     ELSE 0

RECURSIVE ScoreTotal(_)
ScoreTotal(pairs) ==
  IF pairs = {} THEN 0
  ELSE LET p == CHOOSE q \in pairs : TRUE
       IN PairScore(p[1], p[2]) + ScoreTotal(pairs \ {p})

\* the thresholds on a score of total / count: valid above 0.4, high above 0.7,
\* medium above 0.5, and the score itself within [0, 1]
Bucketed(r) ==
  /\ 0 <= r.score_sum /\ r.score_sum <= 1000 * r.score_count
  /\ r.is_valid <=> 10 * r.score_sum > 4 * 1000 * r.score_count
  /\ r.confidence = IF 10 * r.score_sum > 7 * 1000 * r.score_count THEN "high"
                    ELSE IF 10 * r.score_sum > 5 * 1000 * r.score_count THEN "medium"
                    ELSE "low"

\* C18 as stated: for every input validate_consistency yields a consistency score
\* that is the mean of the scores of the pairs with a prior above 0.3, lies in
\* [0, 1], is valid iff above 0.4, and is bucketed high, medium or low
C18_ScoreIsMean ==
  Validated =>
    /\ corrector.validation_result # <<>>
    /\ corrector.validation_result.score_count = Cardinality(ScoredPairs)
    /\ corrector.validation_result.score_sum = ScoreTotal(ScoredPairs)
    /\ Bucketed(corrector.validation_result)

\* C18, amended: with an estimate and a collected speaker the score is the mean of
\* the pair scores when a pair is scored and 0.5 when none is, lies in [0, 1] and
\* is bucketed as stated; with no estimate or no speaker there is no score
C18_ScoreIsMeanOrNeutral ==
  Validated =>
    IF corrector.mic_error_estimate = <<>> \/ corrector.keys = <<>>
    THEN corrector.validation_result = <<>>
    ELSE /\ corrector.validation_result # <<>>
         /\ Bucketed(corrector.validation_result)
         /\ IF ScoredPairs # {}
            THEN /\ corrector.validation_result.score_count = Cardinality(ScoredPairs)
                 /\ corrector.validation_result.score_sum = ScoreTotal(ScoredPairs)
            ELSE 2 * corrector.validation_result.score_sum
                   = 1000 * corrector.validation_result.score_count

\* a validation that scored a pair at 1.0 and another at 0.5
C18_Witness ==
  /\ Validated
  /\ corrector.validation_result # <<>>
  /\ \E p \in ScoredPairs : PairScore(p[1], p[2]) = 1000
  /\ \E p \in ScoredPairs : PairScore(p[1], p[2]) = 500

\* the cross-validated path of the last corrector call has validated
CrossValidated ==
  /\ last.op = "mic"
  /\ mic.path = "cross"
  /\ "validate" \in Range(corrector.calls)

\* the strength the corrector of the last call was constructed with
ConstructedStrength == NewCorrector(fs, last.strength).correction_strength

\* C19: once the cross-validated path has validated, the strength is half the
\* constructed one if the estimate was reported not valid and the constructed one
\* if it was valid, already when the filter design is next and ever after; and
\* the call goes on to the design without raising
C19_HalvedOnceBeforeDesign ==
  CrossValidated =>
    /\ corrector.correction_strength =
         IF corrector.validation_result.is_valid THEN ConstructedStrength
         ELSE ConstructedStrength \div 2
    /\ mic.pc = "design" \/ "design" \in Range(corrector.calls)
    /\ ~last.raised

\* a call whose estimate was not valid has designed its filters at half strength
C19_Witness ==
  /\ CrossValidated
  /\ ~corrector.validation_result.is_valid
  /\ "design" \in Range(corrector.calls)
  /\ corrector.correction_strength = 350

\* the last corrector call has designed its filters from an estimate, and the FIR
\* library returned them
Designed ==
  /\ last.op = "mic"
  /\ "design" \in Range(corrector.calls)
  /\ corrector.mic_error_estimate # <<>>
  /\ mic.lib_len # 0

\* the design of the filters the last call holds
LastDesign == design_correction_filters(corrector, mic.lib_len)

\* the estimate at band f scaled by the strength
Scaled(f) == TruncDiv(corrector.mic_error_estimate[f] * corrector.correction_strength, 1000)

\* C20: the curve the filters are designed from is the estimate scaled by
\* correction_strength and then clipped to +/- max_correction_db; the left-ear
\* curve is minus half of it and the right-ear curve plus half of it, so the two
\* sum to zero and differ by at most max_correction_db at every frequency
C20_ScaledClippedSplit ==
  Designed =>
    /\ mic.left_fir = LastDesign.left_fir
    /\ mic.right_fir = LastDesign.right_fir
    /\ \A f \in DOMAIN corrector.mic_error_estimate :
         /\ LastDesign.curve[f] = IF Scaled(f) > MaxCorrectionDb * DB THEN MaxCorrectionDb * DB
                                  ELSE IF Scaled(f) < -(MaxCorrectionDb * DB)
                                  THEN -(MaxCorrectionDb * DB)
                                  ELSE Scaled(f)
         /\ LastDesign.right_raw[f] = TruncDiv(LastDesign.curve[f], 2)
         /\ LastDesign.left_raw[f] = -LastDesign.right_raw[f]
         /\ LastDesign.left_raw[f] + LastDesign.right_raw[f] = 0
         /\ Abs(LastDesign.right_raw[f] - LastDesign.left_raw[f]) <= MaxCorrectionDb * DB

\* a design whose scaled estimate was beyond the limit and was clipped
C20_Witness ==
  /\ Designed
  /\ \E f \in DOMAIN corrector.mic_error_estimate :
        /\ Abs(Scaled(f)) > MaxCorrectionDb * DB
        /\ LastDesign.right_raw[f] - LastDesign.left_raw[f] = Sign(Scaled(f)) * MaxCorrectionDb * DB

\* the last call was a crop_heads that the rate guard let through
HeadsCropped == last.op = "crop_heads" /\ ~last.mismatch

\* C21: in crop_heads the delay of every speaker is the speaker's physical delay
\* in samples rounded to the nearest sample plus the head room in samples
\* rounded to the nearest sample
C21_DelayRoundsBoth ==
  HeadsCropped =>
    \A s \in DOMAIN last.done :
      last.done[s].delay = RoundHalfEven(SPEAKER_DELAYS(s) * fs, 1000000)
                             + RoundHalfEven(last.head_tenths * fs, 10000)

\* crop_heads has cropped a speaker with a head room of one and a half samples
C21_Reached ==
  /\ HeadsCropped
  /\ ~last.raised
  /\ last.head_tenths * fs = 15000
  /\ DOMAIN last.done # {}

\* the shelf the table gives for a crossover: frequency and gain of the entry
\* with the highest threshold not above it
TableShelf(xo_hz) ==
  IF xo_hz >= 250 THEN [none |-> FALSE, shelf_freq |-> 150, gain_milli |-> 1995]
  ELSE IF xo_hz >= 160 THEN [none |-> FALSE, shelf_freq |-> 100, gain_milli |-> 1679]
  ELSE IF xo_hz >= 80 THEN [none |-> FALSE, shelf_freq |-> 50, gain_milli |-> 1413]
  ELSE [none |-> TRUE]

\* C22: _build_ild_shelf returns the table entry with the highest threshold that
\* is at most the crossover frequency, boundaries included (80 Hz: 50 Hz at 3 dB,
\* 160 Hz: 100 Hz at 4.5 dB, 250 Hz: 150 Hz at 6 dB), and no shelf below 80 Hz
C22_HighestThresholdShelf ==
  last.op = "build_ild_shelf" => last.shelf = TableShelf(last.xo_hz)

\* the shelf was built for a crossover exactly on the middle threshold
C22_Witness ==
  /\ last.op = "build_ild_shelf"
  /\ last.xo_hz = 160
  /\ ~last.shelf.none
  /\ last.shelf.shelf_freq = 100

\* a name equals one of the listed names when letter case is ignored
ListedIgnoringCase(name, listed) == \E n \in listed : Upper(name) = Upper(n)

\* C23: _classify_speaker returns left exactly for FL, SL, BL, WL, TFL, TSL, TBL
\* and right exactly for FR, SR, BR, WR, TFR, TSR, TBR, in any letter case, and
\* center for every other name
C23_ClassifiedByNameSet ==
  last.op = "classify_speaker" =>
    last.side =
      IF ListedIgnoringCase(last.name, {"FL", "SL", "BL", "WL", "TFL", "TSL", "TBL"})
      THEN "left"
      ELSE IF ListedIgnoringCase(last.name, {"FR", "SR", "BR", "WR", "TFR", "TSR", "TBR"})
      THEN "right"
      ELSE "center"

\* a listed name spelled in lower case was classified as left
C23_Witness ==
  /\ last.op = "classify_speaker"
  /\ last.name = "tfl"
  /\ last.side = "left"

\* C24: a corrector just constructed has exactly one gate length for each octave
\* band below the Nyquist frequency and none for the others, each gate length is
\* at least 16 samples and at most a tenth of the rate, and a band of higher
\* centre frequency never has a longer gate
C24_GateLengths ==
  last.op = "corrector" =>
    /\ Range(corrector.octave_bands) = {f \in Range(DefaultBands) : 2 * f < last.rate}
    /\ Len(corrector.octave_bands) = Cardinality(Range(corrector.octave_bands))
    /\ DOMAIN last.gate_lengths = Range(corrector.octave_bands)
    /\ \A f \in DOMAIN last.gate_lengths :
         /\ last.gate_lengths[f] >= 16
         /\ 10 * last.gate_lengths[f] <= last.rate
         /\ \A g \in DOMAIN last.gate_lengths :
              f < g => last.gate_lengths[f] >= last.gate_lengths[g]

\* a corrector at 44.1 kHz: six bands, the gate of the highest held up at 16
\* samples, that of the lowest well above it
C24_Witness ==
  /\ last.op = "corrector"
  /\ last.rate = 44100
  /\ Len(corrector.octave_bands) = 6
  /\ last.gate_lengths[8000] = 16
  /\ last.gate_lengths[250] = 1411

\* the last corrector call has ended after convolving every buffer with its filters
CorrectionApplied ==
  /\ last.op = "mic"
  /\ mic.pc = "idle"
  /\ mic.path \in {"cross", "single"}
  /\ FiltersApply(mic.path, mic.left_fir, mic.right_fir)

\* the largest tap of a filter is its first
MainTapFirst(fir) == ArgMaxAbs(fir) = 0

\* C25: a correction whose filters have their main tap at index 0 leaves the
\* peak index of every speaker's left and right buffer where it was
C25_PeakStays ==
  (CorrectionApplied /\ MainTapFirst(mic.left_fir) /\ MainTapFirst(mic.right_fir)) =>
    \A s \in DOMAIN irs :
      /\ peak_index(irs[s].left) = peak_index(prev[s].left)
      /\ peak_index(irs[s].right) = peak_index(prev[s].right)

\* a correction with the identity filter of three taps, from a zero estimate
C25_Reached ==
  /\ CorrectionApplied
  /\ mic.left_fir = <<1000, 0, 0>>
  /\ mic.right_fir = <<1000, 0, 0>>
  /\ \A f \in DOMAIN corrector.mic_error_estimate : corrector.mic_error_estimate[f] = 0

\* the sample that was the peak of buffer old is in buffer new at the index
\* (old peak index - start), unchanged unless the fade-in covers it
PeakKept(old, new, peak, start, head) ==
  /\ peak - start >= 0
  /\ peak - start < Len(new)
  /\ peak - start >= head => At(new, peak - start) = At(old, peak)

\* C26: after crop_heads the sample that was the peak of each ear of each cropped
\* speaker is still in the buffer, at the old peak index less the crop start,
\* also when the crop start is negative
C26_PeakNotDiscarded ==
  HeadsCropped =>
    \A s \in DOMAIN last.done :
      /\ PeakKept(prev[s].left, irs[s].left, last.done[s].peak_left,
                  last.done[s].start, last.done[s].head)
      /\ PeakKept(prev[s].right, irs[s].right, last.done[s].peak_right,
                  last.done[s].start, last.done[s].head)

\* crop_heads computed a negative crop start for a speaker
C26_Reached ==
  /\ HeadsCropped
  /\ \E s \in DOMAIN last.done : last.done[s].start < 0

\* peak_left - peak_right of one speaker's pair of buffers
PeakDifference(pair) == peak_index(pair.left) - peak_index(pair.right)

\* C27: align_ipsilateral_all leaves peak_left - peak_right of every speaker of
\* the Store as it was
C27_ItdPreserved ==
  last.op = "align" =>
    \A s \in DOMAIN irs : PeakDifference(irs[s]) = PeakDifference(prev[s])

\* an alignment found a pair apart and padded a buffer
C27_Reached ==
  /\ last.op = "align"
  /\ \E i \in 1..Len(last.done) : last.done[i].delay # 0
  /\ irs # prev

\* C28: in one virtual-bass call the bin used for the gain matching of each
\* channel is the bin nearest to the crossover frequency for that channel's own
\* buffer length
C28_BinOfOwnLength ==
  (last.op = "vbass" /\ ~last.aborted) =>
    \A s \in DOMAIN prev : \A ear \in {"left", "right"} :
      last.out[s][ear].freq_idx
        = CrossoverBin(Len(prev[s][ear]), last.args.crossover_freq, fs)

\* a synthesis on a Store in which a later speaker's buffers are shorter than
\* the first buffer
C28_Reached ==
  /\ last.op = "vbass"
  /\ ~last.aborted
  /\ \E s \in DOMAIN prev :
        /\ s # order[1]
        /\ Len(prev[s].right) < Len(prev[order[1]].left)

\* the last call was a channel balance with a method that is neither a named
\* method nor a number
InvalidMethodCall ==
  /\ last.op = "balance"
  /\ last.method \notin NamedMethods
  /\ ~FloatOf(last.method).ok

\* C29: correct_channel_balance with an invalid method raises ValueError whatever
\* speakers the Store holds, also when no symmetric group is complete
C29_InvalidMethodRaises == InvalidMethodCall => last.raised = "ValueError"

\* an invalid method reached channel_balance_firs through a complete group and
\* was refused there
C29_Reached ==
  /\ InvalidMethodCall
  /\ Len(last.calls) = 1
  /\ last.calls[1].firs.raised = "ValueError"

\* the last call was apply_virtual_bass_to_hrir and synthesize_virtual_bass left
\* at its Nyquist check
NyquistAbort == last.op = "vbass" /\ last.aborted

\* the keys logged with logger.success during the last call
SuccessKeys ==
  {last.logged[i].key : i \in {j \in 1..Len(last.logged) : last.logged[j].log = "success"}}

\* C30: apply_virtual_bass_to_hrir logs vbass_status_complete only when
\* synthesis ran; after the Nyquist abort the error is logged and no success
\* follows it
C30_SuccessOnlyAfterSynthesis ==
  (last.op = "vbass" /\ "vbass_status_complete" \in SuccessKeys) => ~last.aborted

\* a call stopped at the Nyquist check with vbass_error_sr_limit logged and the
\* Store left as it was
C30_Reached ==
  /\ NyquistAbort
  /\ \E i \in 1..Len(last.logged) :
       last.logged[i] = [log |-> "error", key |-> "vbass_error_sr_limit"]
  /\ irs = prev

====
